---------------------------- MODULE Spec2Model ----------------------------

(***************************************************************************)
(* Model of git-ai: the commit-message generation pipeline                 *)
(* (generateCommitMessage, the CLI action around it), the configuration    *)
(* (ConfigManager: the layered loader, and the config command that changes *)
(* and saves it), the response interpreter (AIService.parseAIResponse),    *)
(* the prompt builder (AIService.buildPrompt, truncateDiff), the           *)
(* commit-message formatter (formatCommitMessage) and validator            *)
(* (validateCommitMessage).                                                *)
(*                                                                         *)
(* Spec is the pipeline of one invocation, with one action per stretch of  *)
(* code between two awaits; SpecFair is Spec under weak fairness.          *)
(* SpecConfig is the configuration on its own.  The other specifications   *)
(* apply one function to arguments drawn from bounded sets: SpecParse and  *)
(* SpecFence the response interpreter, SpecConfidence the confidence       *)
(* score, SpecFormat the formatter followed by the validator, SpecValidate *)
(* the validator, SpecTruncate the diff truncation, SpecPrompt the prompt  *)
(* builder and SpecRound the interpreter followed by the formatter.        *)
(*                                                                         *)
(* Text is a sequence of one-character strings.  An optional string field  *)
(* that the code only ever tests for truthiness (body, type, scope,        *)
(* footer) is the empty sequence when absent, because '' and undefined     *)
(* take the same branch everywhere.  A number of the configuration is an   *)
(* IEEE 754 double (see the JavaScript values); the confidence of a        *)
(* message is counted in tenths.                                           *)
(***************************************************************************)
EXTENDS Integers, Sequences, FiniteSets, TLC

(***************************************************************************)
(* Bounds of the model.                                                    *)
(***************************************************************************)
\* generation attempts per invocation (the first one plus regenerations)
MaxAttempts == 2

(***************************************************************************)
(* Characters and text helpers (String.prototype methods used by the code) *)
(***************************************************************************)
LowerCase ==
  {"a","b","c","d","e","f","g","h","i","j","k","l","m",
   "n","o","p","q","r","s","t","u","v","w","x","y","z"}

UpperCase ==
  {"A","B","C","D","E","F","G","H","I","J","K","L","M",
   "N","O","P","Q","R","S","T","U","V","W","X","Y","Z"}

Digits == {"0","1","2","3","4","5","6","7","8","9"}

\* the regular-expression class \w
IsWord(c) == c \in LowerCase \cup UpperCase \cup Digits \cup {"_"}

\* the line terminators of the language: line feed, carriage return, line
\* separator, paragraph separator; the pattern's . matches none of them.  A
\* character the string syntax cannot hold is written as the token of its
\* code point
LineTerminators == {"\n", "\r", "U+2028", "U+2029"}

\* white space as seen by trim(), by the class \s and by parseInt and
\* parseFloat: tab, vertical tab, form feed, space, no-break space, the
\* byte-order mark, the space separators, and the line terminators
IsSpace(c) ==
  c \in {" ", "\t", "\f", "U+000B", "U+00A0", "U+FEFF", "U+1680", "U+2000",
         "U+2001", "U+2002", "U+2003", "U+2004", "U+2005", "U+2006",
         "U+2007", "U+2008", "U+2009", "U+200A", "U+202F", "U+205F",
         "U+3000"} \cup LineTerminators

NL == "\n"

\* the backtick character (written as a token: the string syntax has no
\* literal for it)
TICK == "BACKTICK"

\* s.substring(from - 1, to) with 1-based inclusive positions
Sub(s, from, to) == IF from > to THEN << >> ELSE SubSeq(s, from, to)

\* s.startsWith(p)
StartsWith(s, p) == Len(s) >= Len(p) /\ SubSeq(s, 1, Len(p)) = p

\* s.endsWith(p)
EndsWith(s, p) ==
  Len(s) >= Len(p) /\ SubSeq(s, Len(s) - Len(p) + 1, Len(s)) = p

RECURSIVE TrimLeft(_)
TrimLeft(s) ==
  IF s # << >> /\ IsSpace(Head(s)) THEN TrimLeft(Tail(s)) ELSE s

RECURSIVE TrimRight(_)
TrimRight(s) ==
  IF s # << >> /\ IsSpace(s[Len(s)])
  THEN TrimRight(SubSeq(s, 1, Len(s) - 1)) ELSE s

\* s.trim()
Trim(s) == TrimRight(TrimLeft(s))

\* s.indexOf(c, from): first position >= from holding c, 0 when there is none
IndexFrom(s, c, from) ==
  LET at == {i \in from .. Len(s) : s[i] = c} IN
    IF at = {} THEN 0 ELSE CHOOSE i \in at : \A j \in at : i <= j

\* s.split('\n')
RECURSIVE SplitLines(_)
SplitLines(s) ==
  LET i == IndexFrom(s, NL, 1) IN
    IF i = 0 THEN << s >>
    ELSE << Sub(s, 1, i - 1) >> \o SplitLines(Sub(s, i + 1, Len(s)))

\* lines.join('\n')
RECURSIVE JoinLines(_)
JoinLines(ls) ==
  IF ls = << >> THEN << >>
  ELSE IF Len(ls) = 1 THEN ls[1]
  ELSE ls[1] \o << NL >> \o JoinLines(Tail(ls))

\* lines.filter(line => line.trim())
RECURSIVE NonBlank(_)
NonBlank(ls) ==
  IF ls = << >> THEN << >>
  ELSE IF Trim(Head(ls)) # << >> THEN << Head(ls) >> \o NonBlank(Tail(ls))
  ELSE NonBlank(Tail(ls))

\* length of the longest prefix of s, starting at position from, whose
\* characters all satisfy the class
RECURSIVE WordRun(_, _)
WordRun(s, from) ==
  IF from <= Len(s) /\ IsWord(s[from]) THEN 1 + WordRun(s, from + 1) ELSE 0

RECURSIVE TickRun(_, _)
TickRun(s, from) ==
  IF from <= Len(s) /\ s[from] = TICK THEN 1 + TickRun(s, from + 1) ELSE 0

RECURSIVE TickRunBack(_)
TickRunBack(s) ==
  IF s # << >> /\ s[Len(s)] = TICK
  THEN 1 + TickRunBack(SubSeq(s, 1, Len(s) - 1)) ELSE 0

\* how often e occurs in a sequence, and whether it does
RECURSIVE Count(_, _)
Count(e, seq) ==
  IF seq = << >> THEN 0
  ELSE (IF Head(seq) = e THEN 1 ELSE 0) + Count(e, Tail(seq))

Occurs(e, seq) == \E i \in 1 .. Len(seq) : seq[i] = e

(***************************************************************************)
(* Commit styles and messages (types.ts).                                  *)
(***************************************************************************)
\* a style is a string, like every other text
Conventional == << "c","o","n","v","e","n","t","i","o","n","a","l" >>

Standard == << "s","t","a","n","d","a","r","d" >>

Detailed == << "d","e","t","a","i","l","e","d" >>

CommitStyle == {Conventional, Standard, Detailed}

\* a CommitMessage; absent optional fields are empty
CommitMessage(title, body, type, scope, breaking, footer) ==
  [title |-> title, body |-> body, type |-> type, scope |-> scope,
   breaking |-> breaking, footer |-> footer]

NoMessage == CommitMessage(<< >>, << >>, << >>, << >>, FALSE, << >>)

(***************************************************************************)
(* Response interpreter (ai.ts, parseAIResponse / calculateConfidence).    *)
(***************************************************************************)
\* an opening fence removed only when the line break follows the three
\* backticks at once
StripOpenFenceWithoutTag(s) ==
  IF StartsWith(s, << TICK, TICK, TICK, NL >>)
  THEN Sub(s, 5, Len(s)) ELSE s

\* content.replace(/^```[\s\S]*?\n/, ''): an opening fence is removed up to
\* and including the first line break that follows the three backticks
StripOpenFence(s) ==
  LET i == IndexFrom(s, NL, 4) IN
    IF StartsWith(s, << TICK, TICK, TICK >>) /\ i # 0
    THEN Sub(s, i + 1, Len(s)) ELSE s

\* content.replace(/\n```$/, ''): a closing fence at the very end
StripCloseFence(s) ==
  IF EndsWith(s, << NL, TICK, TICK, TICK >>)
  THEN Sub(s, 1, Len(s) - 4) ELSE s

\* content.replace(/^`+/, '').replace(/`+$/, '')
StripTicks(s) ==
  LET a == Sub(s, TickRun(s, 1) + 1, Len(s)) IN
    Sub(a, 1, Len(a) - TickRunBack(a))

\* the cleaned content of a response, before it is split into lines
CleanContent(content) ==
  StripTicks(StripCloseFence(StripOpenFence(Trim(content))))

\* title.match(/^(\w+)(?:\(([^)]+)\))?(!)?:\s*(.+)$/): the match record, with
\* ok = FALSE when the title does not match
ConventionalMatch(title) ==
  LET w      == WordRun(title, 1)
      p      == w + 1
      open   == p <= Len(title) /\ title[p] = "("
      close  == IF open THEN IndexFrom(title, ")", p + 1) ELSE 0
      scoped == open /\ close >= p + 2
      p2     == IF scoped THEN close + 1 ELSE p
      bang   == p2 <= Len(title) /\ title[p2] = "!"
      p3     == IF bang THEN p2 + 1 ELSE p2
      colon  == p3 <= Len(title) /\ title[p3] = ":"
      rest   == \E k \in p3 .. (Len(title) - 1) :
                  /\ \A i \in (p3 + 1) .. k : IsSpace(title[i])
                  /\ \A i \in (k + 1) .. Len(title) :
                       title[i] \notin LineTerminators
      ok     == w >= 1 /\ colon /\ rest
  IN [ok       |-> ok,
      type     |-> IF ok THEN Sub(title, 1, w) ELSE << >>,
      scope    |-> IF ok /\ scoped THEN Sub(title, p + 1, close - 1)
                   ELSE << >>,
      breaking |-> ok /\ bang]

\* a score that is not capped at 1.0
calculateConfidenceUncapped(title, body) ==
  5 + (IF Len(title) > 10 /\ Len(title) <= 50 THEN 2 ELSE 0)
    + (IF title # << >> /\ title[1] \in LowerCase THEN 1 ELSE 0)
    + (IF ~EndsWith(title, << "." >>) THEN 1 ELSE 0)
    + (IF IndexFrom(title, ":", 1) # 0 THEN 1 ELSE 0)
    + (IF body # << >> /\ Len(body) > 20 THEN 1 ELSE 0)

\* calculateConfidence, in tenths
calculateConfidence(title, body) ==
  LET c1 == 5 + (IF Len(title) > 10 /\ Len(title) <= 50 THEN 2 ELSE 0)
      c2 == c1 + (IF title # << >> /\ title[1] \in LowerCase THEN 1 ELSE 0)
      c3 == c2 + (IF ~EndsWith(title, << "." >>) THEN 1 ELSE 0)
      c4 == c3 + (IF IndexFrom(title, ":", 1) # 0 THEN 1 ELSE 0)
      c5 == c4 + (IF body # << >> /\ Len(body) > 20 THEN 1 ELSE 0)
  IN IF c5 < 10 THEN c5 ELSE 10

\* a parser that throws only when the cleaned content is the empty string
parseAIResponseEmptyOnly(content, style) ==
  LET lines == NonBlank(SplitLines(CleanContent(content)))
      title == IF lines = << >> THEN << >> ELSE Trim(lines[1])
      body  == IF lines = << >> THEN << >> ELSE Trim(JoinLines(Tail(lines)))
  IN IF CleanContent(content) = << >>
     THEN [ok |-> FALSE, message |-> NoMessage, confidence |-> 0]
     ELSE [ok |-> TRUE,
           message |-> CommitMessage(title, body, << >>, << >>, FALSE,
                                     << >>),
           confidence |-> calculateConfidence(title, body)]

\* parseAIResponse(content, style): ok = FALSE stands for the thrown
\* 'Empty response from AI'
parseAIResponse(content, style) ==
  LET lines == NonBlank(SplitLines(CleanContent(content)))
      title == Trim(lines[1])
      body  == Trim(JoinLines(Tail(lines)))
      m     == IF style = Conventional THEN ConventionalMatch(title)
               ELSE [ok |-> FALSE, type |-> << >>, scope |-> << >>,
                     breaking |-> FALSE]
  IN IF Len(lines) = 0
     THEN [ok |-> FALSE, message |-> NoMessage, confidence |-> 0]
     ELSE [ok |-> TRUE,
           message |-> CommitMessage(title, body, m.type, m.scope,
                                     m.breaking, << >>),
           confidence |-> calculateConfidence(title, body)]

(***************************************************************************)
(* Prompt construction (ai.ts, buildPrompt / truncateDiff).                *)
(***************************************************************************)
\* the maxLength buildPrompt passes to truncateDiff
DiffLimit == 3000

\* '\n... (diff truncated)'
TruncationMarker ==
  << NL, ".", ".", ".", " ", "(", "d", "i", "f", "f", " ",
     "t", "r", "u", "n", "c", "a", "t", "e", "d", ")" >>

\* s.lastIndexOf(c), counted from 1: 0 when c does not occur
LastIndexOf(s, c) ==
  LET at == {i \in 1 .. Len(s) : s[i] = c} IN
    IF at = {} THEN 0 ELSE CHOOSE i \in at : \A j \in at : j <= i

\* a truncation that cuts at maxLength without going back to a line break
truncateDiffAtLimit(diff, maxLength) ==
  IF Len(diff) <= maxLength THEN diff
  ELSE Sub(diff, 1, maxLength) \o TruncationMarker

\* truncateDiff(diff, maxLength): substring(0, lastNewline) is empty when
\* lastIndexOf found nothing and returned -1
truncateDiff(diff, maxLength) ==
  IF Len(diff) <= maxLength THEN diff
  ELSE LET truncated   == Sub(diff, 1, maxLength)
           lastNewline == LastIndexOf(truncated, NL)
       IN Sub(truncated, 1, lastNewline - 1) \o TruncationMarker

\* the decimal text of a natural number, as a template literal renders it
RECURSIVE ToText(_)
ToText(n) ==
  LET digits == << "0", "1", "2", "3", "4", "5", "6", "7", "8", "9" >> IN
    IF n < 10 THEN << digits[n + 1] >>
    ELSE ToText(n \div 10) \o << digits[(n % 10) + 1] >>

\* the text of a file status
StatusText(status) ==
  CASE status = "added"    -> << "a", "d", "d", "e", "d" >>
    [] status = "modified" -> << "m", "o", "d", "i", "f", "i", "e", "d" >>
    [] status = "deleted"  -> << "d", "e", "l", "e", "t", "e", "d" >>
    [] status = "renamed"  -> << "r", "e", "n", "a", "m", "e", "d" >>
    [] status = "copied"   -> << "c", "o", "p", "i", "e", "d" >>

\* a listing of the files from the last one to the first
RECURSIVE FileEntriesReversed(_)
FileEntriesReversed(files) ==
  IF files = << >> THEN << >>
  ELSE FileEntriesReversed(Tail(files))
       \o << "-", " " >> \o StatusText(Head(files).status) \o << ":", " " >>
       \o Head(files).path \o << " ", "(", "+" >>
       \o ToText(Head(files).insertions) \o << "/", "-" >>
       \o ToText(Head(files).deletions) \o << ")", NL >>

\* diff.files.forEach(file => prompt += `- ${file.status}: ${file.path}
\* (+${file.insertions}/-${file.deletions})\n`)
RECURSIVE FileEntries(_)
FileEntries(files) ==
  IF files = << >> THEN << >>
  ELSE << "-", " " >> \o StatusText(Head(files).status) \o << ":", " " >>
       \o Head(files).path \o << " ", "(", "+" >>
       \o ToText(Head(files).insertions) \o << "/", "-" >>
       \o ToText(Head(files).deletions) \o << ")", NL >>
       \o FileEntries(Tail(files))

\* previousCommits.slice(0, 3).forEach(commit => prompt += `- ${commit}\n`)
RECURSIVE CommitEntries(_)
CommitEntries(commitLines) ==
  IF commitLines = << >> THEN << >>
  ELSE << "-", " " >> \o Head(commitLines) \o << NL >>
       \o CommitEntries(Tail(commitLines))

\* buildPrompt(context): an absent repoName, branch or previousCommits is the
\* empty sequence; the texts named first are the fixed parts of the template
\* literals, in the order of the code
buildPrompt(context) ==
  LET promptHead ==
        << "A", "n", "a", "l", "y", "z", "e", " ", "t", "h", "i", "s", " ",
           "g", "i", "t", " ", "d", "i", "f", "f", " ", "a", "n", "d", " ",
           "g", "e", "n", "e", "r", "a", "t", "e", " ", "a", " " >>
      promptHeadEnd ==
        << " ", "c", "o", "m", "m", "i", "t", " ", "m", "e", "s", "s", "a",
           "g", "e", ":", NL, NL >>
      repositoryLabel ==
        << "R", "e", "p", "o", "s", "i", "t", "o", "r", "y", ":", " " >>
      branchLabel ==
        << "B", "r", "a", "n", "c", "h", ":", " " >>
      filesHead ==
        << NL, "F", "i", "l", "e", "s", " ", "c", "h", "a", "n", "g", "e",
           "d", " ", "(" >>
      filesHeadEnd ==
        << ")", ":", NL >>
      commitsHead ==
        << NL, "R", "e", "c", "e", "n", "t", " ", "c", "o", "m", "m", "i",
           "t", "s", " ", "f", "o", "r", " ", "c", "o", "n", "t", "e", "x",
           "t", ":", NL >>
      diffHead ==
        << NL, "G", "i", "t", " ", "d", "i", "f", "f", ":", NL, TICK, TICK,
           TICK, "d", "i", "f", "f", NL >>
      diffEnd ==
        << NL, TICK, TICK, TICK, NL >>
      closingHead ==
        << NL, "G", "e", "n", "e", "r", "a", "t", "e", " ", "a", " " >>
      closingEnd ==
        << " ", "c", "o", "m", "m", "i", "t", " ", "m", "e", "s", "s", "a",
           "g", "e", ".", " ", "R", "e", "s", "p", "o", "n", "d", " ", "w",
           "i", "t", "h", " ", "O", "N", "L", "Y", " ", "t", "h", "e", " ",
           "c", "o", "m", "m", "i", "t", " ", "m", "e", "s", "s", "a", "g",
           "e", ",", " ", "n", "o", " ", "a", "d", "d", "i", "t", "i", "o",
           "n", "a", "l", " ", "t", "e", "x", "t", "." >>
  IN promptHead \o context.style \o promptHeadEnd
       \o (IF context.repoName # << >>
           THEN repositoryLabel \o context.repoName \o << NL >> ELSE << >>)
       \o (IF context.branch # << >>
           THEN branchLabel \o context.branch \o << NL >> ELSE << >>)
       \o filesHead \o ToText(context.diff.summary.filesChanged)
       \o filesHeadEnd
       \o FileEntries(context.diff.files)
       \o (IF Len(context.previousCommits) > 0
           THEN commitsHead
                \o CommitEntries(Sub(context.previousCommits, 1,
                                     IF Len(context.previousCommits) < 3
                                     THEN Len(context.previousCommits)
                                     ELSE 3))
           ELSE << >>)
       \o diffHead \o truncateDiff(context.diff.raw, DiffLimit) \o diffEnd
       \o closingHead \o context.style \o closingEnd

(***************************************************************************)
(* Commit-message formatter (utils.ts).                                    *)
(***************************************************************************)
\* a conventional format with no space after the colon
formatConventionalCommitNoSpace(message) ==
  LET prefix == IF message.type # << >>
                THEN message.type
                     \o (IF message.scope # << >>
                         THEN << "(" >> \o message.scope \o << ")" >>
                         ELSE << >>)
                     \o (IF message.breaking THEN << "!" >> ELSE << >>)
                     \o << ":" >>
                ELSE << >>
      body   == IF message.body # << >>
                THEN << NL, NL >> \o message.body ELSE << >>
      footer == IF message.footer # << >>
                THEN << NL, NL >> \o message.footer ELSE << >>
  IN prefix \o message.title \o body \o footer

formatConventionalCommit(message) ==
  LET prefix == IF message.type # << >>
                THEN message.type
                     \o (IF message.scope # << >>
                         THEN << "(" >> \o message.scope \o << ")" >>
                         ELSE << >>)
                     \o (IF message.breaking THEN << "!" >> ELSE << >>)
                     \o << ":", " " >>
                ELSE << >>
      body   == IF message.body # << >>
                THEN << NL, NL >> \o message.body ELSE << >>
      footer == IF message.footer # << >>
                THEN << NL, NL >> \o message.footer ELSE << >>
  IN prefix \o message.title \o body \o footer

formatDetailedCommit(message) ==
  message.title \o (IF message.body # << >>
                    THEN << NL, NL >> \o message.body ELSE << >>)

formatStandardCommit(message) == message.title

formatCommitMessage(message, style) ==
  CASE style = Conventional -> formatConventionalCommit(message)
    [] style = Detailed     -> formatDetailedCommit(message)
    [] OTHER                -> formatStandardCommit(message)

(***************************************************************************)
(* Commit-message validator (utils.ts).                                    *)
(***************************************************************************)
\* the eleven type tags of the conventional pattern
CommitTypes ==
  {<< "f","e","a","t" >>, << "f","i","x" >>, << "d","o","c","s" >>,
   << "s","t","y","l","e" >>, << "r","e","f","a","c","t","o","r" >>,
   << "t","e","s","t" >>, << "c","h","o","r","e" >>, << "p","e","r","f" >>,
   << "c","i" >>, << "b","u","i","l","d" >>, << "r","e","v","e","r","t" >> }

\* (\(.+\))? tried at position p: the positions the match can go on from,
\* p itself when the group is skipped
AfterScope(m, p) ==
  {p} \cup {e + 1 : e \in {e \in (p + 2) .. Len(m) :
                             /\ m[p] = "(" /\ m[e] = ")"
                             /\ \A i \in (p + 1) .. (e - 1) :
                                  m[i] \notin LineTerminators}}

\* /^(feat|fix|...|revert)(\(.+\))?!?:\s.+/.test(message)
validateConventionalCommit(message) ==
  \E tag \in CommitTypes :
    /\ StartsWith(message, tag)
    /\ \E q \in AfterScope(message, Len(tag) + 1), b \in {0, 1} :
         LET c == q + b IN
           /\ b = 1 => q <= Len(message) /\ message[q] = "!"
           /\ c + 2 <= Len(message)
           /\ message[c] = ":"
           /\ IsSpace(message[c + 1])
           /\ message[c + 2] \notin LineTerminators

\* a title limit that leaves out the title of exactly 50 characters
validateStandardCommitBelowLimit(message) ==
  LET title == SplitLines(message)[1] IN
    Len(title) < 50 /\ ~EndsWith(title, << "." >>)

\* title.length <= 50 && !title.endsWith('.'), title being the first line
validateStandardCommit(message) ==
  LET title == SplitLines(message)[1] IN
    Len(title) <= 50 /\ ~EndsWith(title, << "." >>)

\* validateCommitMessage(message, style)
validateCommitMessage(message, style) ==
  IF Trim(message) = << >> THEN FALSE
  ELSE IF style = Conventional THEN validateConventionalCommit(message)
  ELSE validateStandardCommit(message)

(***************************************************************************)
(* JavaScript values: undefined, null, NaN, an infinity, a finite number,  *)
(* a string.  A finite number is an IEEE 754 double: its value is          *)
(* m * 2^(e - 52), negated when neg holds, with -1022 <= e <= 1023 and     *)
(* m < 2^53; m >= 2^52 unless e = -1022 (a subnormal, and zero when        *)
(* m = 0).  m is written in base 2^15, least significant digit first, with *)
(* no leading zero, so zero is << >>.  The loader combines values with ||, *)
(* which tests truthiness.                                                 *)
(***************************************************************************)
Undef == [k |-> "undef", neg |-> FALSE, e |-> 0, m |-> << >>, s |-> << >>]

\* null: what JSON.stringify writes for NaN and for an infinity
Null == [k |-> "null", neg |-> FALSE, e |-> 0, m |-> << >>, s |-> << >>]

NaN == [k |-> "nan", neg |-> FALSE, e |-> 0, m |-> << >>, s |-> << >>]

\* Infinity (sign = 1) and -Infinity (sign = -1)
Infinity(sign) ==
  [k |-> "inf", neg |-> sign < 0, e |-> 0, m |-> << >>, s |-> << >>]

\* Whole numbers of any size, for the arithmetic of doubles: a sequence of
\* digits in base 2^15, least significant first, with no leading zero.  The
\* operators that walk a number halve their range, and so nest to the
\* logarithm of its length.
\* BigMulAdd: the digits lo .. hi of a * k + c, and the carry out of them;
\* k <= 2^15 and c < 2^15
RECURSIVE BigMulAdd(_, _, _, _, _)
BigMulAdd(a, k, c, lo, hi) ==
  IF lo = hi
  THEN [d |-> << (a[lo] * k + c) % 32768 >>, c |-> (a[lo] * k + c) \div 32768]
  ELSE LET low  == BigMulAdd(a, k, c, lo, (lo + hi) \div 2)
           high == BigMulAdd(a, k, low.c, ((lo + hi) \div 2) + 1, hi)
       IN [d |-> low.d \o high.d, c |-> high.c]

\* a * k + c
BigTimes(a, k, c) ==
  IF a = << >> THEN IF c = 0 THEN << >> ELSE << c >>
  ELSE LET r == BigMulAdd(a, k, c, 1, Len(a)) IN
         IF r.c = 0 THEN r.d ELSE Append(r.d, r.c)

\* the digits lo .. hi of a - b - c, and the borrow out of them
RECURSIVE BigSubFrom(_, _, _, _, _)
BigSubFrom(a, b, c, lo, hi) ==
  IF lo = hi
  THEN LET t == a[lo] - c - (IF lo <= Len(b) THEN b[lo] ELSE 0) IN
         IF t >= 0 THEN [d |-> << t >>, c |-> 0]
         ELSE [d |-> << t + 32768 >>, c |-> 1]
  ELSE LET low  == BigSubFrom(a, b, c, lo, (lo + hi) \div 2)
           high == BigSubFrom(a, b, low.c, ((lo + hi) \div 2) + 1, hi)
       IN [d |-> low.d \o high.d, c |-> high.c]

\* a - b for a >= b
BigMinus(a, b) ==
  LET d == IF a = << >> THEN << >> ELSE BigSubFrom(a, b, 0, 1, Len(a)).d IN
    IF \A i \in 1 .. Len(d) : d[i] = 0 THEN << >>
    ELSE SubSeq(d, 1, CHOOSE i \in 1 .. Len(d) :
                        d[i] # 0 /\ \A j \in (i + 1) .. Len(d) : d[j] = 0)

\* a >= b
BigGeq(a, b) ==
  IF Len(a) # Len(b) THEN Len(a) > Len(b)
  ELSE a = b \/ \E i \in 1 .. Len(a) :
                  a[i] > b[i] /\ \A j \in (i + 1) .. Len(a) : a[j] = b[j]

\* the number of binary digits of a
BigBitLen(a) ==
  IF a = << >> THEN 0
  ELSE 15 * (Len(a) - 1)
       + (CHOOSE b \in 1 .. 15 : 2^(b - 1) <= a[Len(a)] /\ a[Len(a)] < 2^b)

\* a * 10^n
RECURSIVE BigTimes10(_, _)
BigTimes10(a, n) ==
  IF a = << >> THEN << >>
  ELSE IF n <= 4 THEN BigTimes(a, 10^n, 0)
  ELSE BigTimes10(BigTimes10(a, n \div 2), n - (n \div 2))

\* the number whose digits in the radix are those of a followed by
\* digits[lo .. hi]; nothing but zeros is zero
RECURSIVE BigOfDigits(_, _, _, _, _)
BigOfDigits(a, digits, radix, lo, hi) ==
  IF a = << >> /\ \A i \in lo .. hi : digits[i] = 0 THEN << >>
  ELSE IF lo > hi THEN a
  ELSE IF lo = hi THEN BigTimes(a, radix, digits[lo])
  ELSE BigOfDigits(BigOfDigits(a, digits, radix, lo, (lo + hi) \div 2),
                   digits, radix, ((lo + hi) \div 2) + 1, hi)

\* the first nb binary digits of R / Q < 2, most significant first, and
\* what is left over: R / Q = bits / 2^(nb - 1) + r / (Q * 2^nb)
RECURSIVE BigQuotient(_, _, _)
BigQuotient(R, Q, nb) ==
  IF nb = 0 THEN [bits |-> << >>, r |-> R]
  ELSE IF nb = 1
  THEN IF BigGeq(R, Q)
       THEN [bits |-> << 1 >>, r |-> BigTimes(BigMinus(R, Q), 2, 0)]
       ELSE [bits |-> << 0 >>, r |-> BigTimes(R, 2, 0)]
  ELSE LET top  == BigQuotient(R, Q, nb \div 2)
           rest == BigQuotient(top.r, Q, nb - (nb \div 2))
       IN [bits |-> top.bits \o rest.bits, r |-> rest.r]

\* the finite number m * 2^(e - 52); m reaches 2^53 when rounding carries
\* over: the next power of two, an infinity beyond the largest double
Pack(neg, m, e) ==
  IF BigBitLen(m) < 54
  THEN [k |-> "num", neg |-> neg, e |-> e, m |-> m, s |-> << >>]
  ELSE IF e + 1 > 1023 THEN Infinity(IF neg THEN -1 ELSE 1)
  ELSE [k |-> "num", neg |-> neg, e |-> e + 1, m |-> << 0, 0, 0, 128 >>,
        s |-> << >>]

\* the quotient q of the division by Q rounded to nearest: more than half a
\* unit left over rounds up, exactly half to even
Nearest(neg, q, Q, e) ==
  Pack(neg,
       BigTimes(BigOfDigits(<< >>, q.bits, 2, 1, Len(q.bits)), 1,
                IF BigGeq(q.r, Q)
                   /\ (q.r # Q \/ (q.bits # << >> /\ q.bits[Len(q.bits)] = 1))
                THEN 1 ELSE 0),
       e)

\* the number is P / Q * 2^e with 1 <= P / Q < 2; a subnormal keeps
\* e + 1075 binary digits
Divide(neg, P, Q, e) ==
  IF e > 1023 THEN Infinity(IF neg THEN -1 ELSE 1)
  ELSE IF e < -1075
  THEN [k |-> "num", neg |-> neg, e |-> -1022, m |-> << >>, s |-> << >>]
  ELSE Nearest(neg, BigQuotient(P, Q, IF e < -1022 THEN e + 1075 ELSE 53), Q,
               IF e < -1022 THEN -1022 ELSE e)

\* P and Q of the same bit length, the number is P / Q * 2^e
Aligned(neg, P, Q, e) ==
  Divide(neg, BigTimes(P, IF BigGeq(P, Q) THEN 1 ELSE 2, 0), Q,
         IF BigGeq(P, Q) THEN e ELSE e - 1)

\* a * 2^n
Shl(a, n) == [i \in 1 .. (n \div 15) |-> 0] \o BigTimes(a, 2^(n % 15), 0)

\* the number is P / Q: the shorter of the two is moved up to the bit length
\* of the other
Ratio(neg, P, Q) ==
  Aligned(neg,
          Shl(P, IF BigBitLen(P) < BigBitLen(Q)
                 THEN BigBitLen(Q) - BigBitLen(P) ELSE 0),
          Shl(Q, IF BigBitLen(P) > BigBitLen(Q)
                 THEN BigBitLen(P) - BigBitLen(Q) ELSE 0),
          BigBitLen(P) - BigBitLen(Q))

\* the number is N * 10^exp10: 0 or -0 for no N, and when N * 10^exp10 is
\* below 10^-324, as N < 2^BigBitLen(N) < 10^(BigBitLen(N) \div 3 + 1)
Scale(neg, N, exp10) ==
  IF N = << >> \/ (BigBitLen(N) \div 3) + 1 + exp10 <= -324
  THEN [k |-> "num", neg |-> neg, e |-> -1022, m |-> << >>, s |-> << >>]
  ELSE IF exp10 >= 309 THEN Infinity(IF neg THEN -1 ELSE 1)
  ELSE Ratio(neg, BigTimes10(N, IF exp10 > 0 THEN exp10 ELSE 0),
             BigTimes10(<< 1 >>, IF exp10 < 0 THEN 0 - exp10 ELSE 0))

\* the double nearest to the number whose digits in the radix are the
\* sequence digits (most significant first), times 10^exp10, negated when
\* neg holds: round to nearest, ties to even, an infinity beyond the largest
\* double, zero below half the smallest
RoundToDouble(neg, digits, radix, exp10) ==
  Scale(neg, BigOfDigits(<< >>, digits, radix, 1, Len(digits)), exp10)

\* the integer x, |x| < 2^30: m is |x| moved up to 53 binary digits
Num(x) ==
  LET a  == IF x < 0 THEN 0 - x ELSE x
      sh == 53 - (CHOOSE b \in 1 .. 30 : 2^(b - 1) <= a /\ a < 2^b)
      \* the digit of a * 2^sh that 2^(15 * j) leads
      Digit(j) ==
        IF sh - 15 * j >= 15 THEN 0
        ELSE IF sh >= 15 * j
        THEN (a % 2^(15 - (sh - 15 * j))) * 2^(sh - 15 * j)
        ELSE (a \div 2^(15 * j - sh)) % 32768
  IN IF x = 0
     THEN [k |-> "num", neg |-> FALSE, e |-> -1022, m |-> << >>, s |-> << >>]
     ELSE [k |-> "num", neg |-> x < 0, e |-> 52 - sh,
           m |-> << Digit(0), Digit(1), Digit(2), Digit(3) >>, s |-> << >>]

\* the number nearest n / 10^d, what the literal denotes (|n| < 2^30)
Dec(n, d) ==
  RoundToDouble(n < 0, << (IF n < 0 THEN 0 - n ELSE n) \div 32768,
                          (IF n < 0 THEN 0 - n ELSE n) % 32768 >>,
                32768, 0 - d)

Str(t) == [k |-> "str", neg |-> FALSE, e |-> 0, m |-> << >>, s |-> t]

\* the truthiness of a value: a number is falsy when it is 0 or -0
Truthy(v) ==
  CASE v.k = "num" -> v.m # << >>
    [] v.k = "inf" -> TRUE
    [] v.k = "str" -> v.s # << >>
    [] OTHER       -> FALSE

\* a || b
Or(a, b) == IF Truthy(a) THEN a ELSE b

\* the value of a digit in radixes up to 16; 16 for any other character
DigitVal(c) ==
  CASE c = "0" -> 0 [] c = "1" -> 1 [] c = "2" -> 2 [] c = "3" -> 3
    [] c = "4" -> 4 [] c = "5" -> 5 [] c = "6" -> 6 [] c = "7" -> 7
    [] c = "8" -> 8 [] c = "9" -> 9
    [] c \in {"a", "A"} -> 10 [] c \in {"b", "B"} -> 11
    [] c \in {"c", "C"} -> 12 [] c \in {"d", "D"} -> 13
    [] c \in {"e", "E"} -> 14 [] c \in {"f", "F"} -> 15
    [] OTHER -> 16

\* the length of the run of digits of the radix that starts at s[from]
DigitRun(s, from, radix) ==
  LET stop == {i \in from .. Len(s) : DigitVal(s[i]) >= radix} IN
    IF from > Len(s) THEN 0
    ELSE IF stop = {} THEN Len(s) - from + 1
    ELSE (CHOOSE i \in stop : \A j \in stop : i <= j) - from

\* parseInt of a string with no radix given: leading white space, an
\* optional sign, an optional 0x or 0X that selects radix 16, then the
\* longest run of digits of the radix; NaN when there is no digit
parseInt(str) ==
  LET t     == TrimLeft(str)
      sgn   == t # << >> /\ t[1] \in {"+", "-"}
      p     == IF sgn THEN 2 ELSE 1
      hex   == p + 1 <= Len(t) /\ t[p] = "0" /\ t[p + 1] \in {"x", "X"}
      radix == IF hex THEN 16 ELSE 10
      from  == IF hex THEN p + 2 ELSE p
      n     == DigitRun(t, from, radix)
  IN IF n = 0 THEN NaN
     ELSE RoundToDouble(sgn /\ t[1] = "-",
                        [i \in 1 .. n |-> DigitVal(t[from + i - 1])], radix, 0)

\* the exponent t[from .. to] after the digits of acc, or Len(t) + 400 when
\* it is larger than that.  The mantissa has fewer than Len(t) digits, so
\* with either exponent a literal other than zero is above 10^400 and
\* denotes an infinity, or is below 10^-400 and denotes zero
RECURSIVE Exponent(_, _, _, _)
Exponent(t, from, to, acc) ==
  IF from > to THEN acc
  ELSE Exponent(t, from + 1, to,
                IF acc > (Len(t) + 400) \div 10
                   \/ 10 * acc + DigitVal(t[from]) > Len(t) + 400
                THEN Len(t) + 400
                ELSE 10 * acc + DigitVal(t[from]))

\* the exponent has x digits from xFrom on; without a digit the literal ends
\* with its mantissa, at mEnd
WithExponent(t, neg, mant, f, mEnd, xFrom, xneg, x) ==
  [len |-> IF x = 0 THEN mEnd ELSE xFrom + x - 1, inf |-> FALSE,
   neg |-> neg, mant |-> mant,
   exp10 |-> (IF xneg THEN -1 ELSE 1) * Exponent(t, xFrom, xFrom + x - 1, 0)
             - f]

\* the exponent part starts at t[mEnd + 1] with e or E, and its digits
\* at xFrom, after the sign if there is one
ExponentPart(t, neg, mant, f, mEnd, xFrom) ==
  WithExponent(t, neg, mant, f, mEnd, xFrom,
               mEnd + 2 <= Len(t) /\ t[mEnd + 2] = "-",
               IF mEnd + 1 <= Len(t) /\ t[mEnd + 1] \in {"e", "E"}
               THEN DigitRun(t, xFrom, 10) ELSE 0)

\* the mantissa digits mant, f of them fraction digits, end at mEnd
AfterMantissa(t, neg, mant, f, mEnd) ==
  ExponentPart(t, neg, mant, f, mEnd,
               IF mEnd + 2 <= Len(t) /\ t[mEnd + 2] \in {"+", "-"}
               THEN mEnd + 3 ELSE mEnd + 2)

\* n digits from from on, then, when point = 1, a point and f digits; a
\* literal has a digit
Mantissa(t, neg, from, n, point, f) ==
  IF n = 0 /\ f = 0
  THEN [len |-> 0, inf |-> FALSE, neg |-> FALSE, mant |-> << >>, exp10 |-> 0]
  ELSE AfterMantissa(t, neg,
                     [i \in 1 .. (n + f) |->
                        DigitVal(t[IF i <= n THEN from + i - 1 ELSE from + i])],
                     f, from + n - 1 + point + f)

\* n digits from from on, then maybe a point
Digits10(t, neg, from, n) ==
  Mantissa(t, neg, from, n,
           IF from + n <= Len(t) /\ t[from + n] = "." THEN 1 ELSE 0,
           IF from + n <= Len(t) /\ t[from + n] = "."
           THEN DigitRun(t, from + n + 1, 10) ELSE 0)

\* the literal after its sign, from t[from] on
Unsigned(t, neg, from) ==
  IF StartsWith(Sub(t, from, Len(t)), << "I","n","f","i","n","i","t","y" >>)
  THEN [len |-> from + 7, inf |-> TRUE, neg |-> neg, mant |-> << >>,
        exp10 |-> 0]
  ELSE Digits10(t, neg, from, DigitRun(t, from, 10))

\* the longest prefix of t that is a decimal literal: an optional sign, then
\* Infinity, or digits with an optional point and fraction (or a point and
\* digits), then an optional exponent.  len is its length, 0 when there is
\* none; a literal with digits has inf = FALSE and stands for the number
\* with the decimal digits mant, times 10^exp10
DecimalLiteralParts(t) ==
  Unsigned(t, t # << >> /\ t[1] = "-",
           IF t # << >> /\ t[1] \in {"+", "-"} THEN 2 ELSE 1)

\* the value of the literal with the parts p, NaN when there is none
LiteralValue(p) ==
  IF p.len = 0 THEN NaN
  ELSE IF p.inf THEN Infinity(IF p.neg THEN -1 ELSE 1)
  ELSE RoundToDouble(p.neg, p.mant, 10, p.exp10)

\* the literal's length and its value
StrDecimalLiteral(t) ==
  [len |-> DecimalLiteralParts(t).len,
   v   |-> LiteralValue(DecimalLiteralParts(t))]

\* parseFloat of a string: leading white space, then the longest decimal
\* literal; NaN when there is none
parseFloat(str) == LiteralValue(DecimalLiteralParts(TrimLeft(str)))

\* the radix that the first two characters of a numeric string select
RadixOf(t) ==
  IF Len(t) < 2 \/ t[1] # "0" THEN 10
  ELSE CASE t[2] \in {"x", "X"} -> 16
         [] t[2] \in {"o", "O"} -> 8
         [] t[2] \in {"b", "B"} -> 2
         [] OTHER -> 10

\* the value of a literal that is the whole of t
WholeLiteral(t, lit) == IF lit.len = Len(t) THEN lit.v ELSE NaN

\* ToNumber of the trimmed string t: empty (0), a whole decimal literal, or
\* 0x, 0o or 0b (in either case) followed by digits of that radix only; any
\* other string is NaN
StringToNumber(t, radix) ==
  IF t = << >> THEN Num(0)
  ELSE IF radix = 10 THEN WholeLiteral(t, StrDecimalLiteral(t))
  ELSE IF Len(t) > 2 /\ DigitRun(t, 3, radix) = Len(t) - 2
  THEN RoundToDouble(FALSE, [i \in 1 .. (Len(t) - 2) |-> DigitVal(t[i + 2])],
                     radix, 0)
  ELSE NaN

\* ToNumber of a value; a string is trimmed at both ends
ToNumber(v) ==
  CASE v.k \in {"num", "inf"} -> v
    [] v.k = "null" -> Num(0)
    [] v.k = "str" -> StringToNumber(Trim(v.s), RadixOf(Trim(v.s)))
    [] OTHER -> NaN

(***************************************************************************)
(* Configuration (config.ts).  An environment gives each variable as set   *)
(* or unset; process.env.X is undefined when X is unset.  Of AppConfig the *)
(* model keeps the settings that have an environment variable.             *)
(***************************************************************************)
EnvNames ==
  {"OPENAI_API_KEY", "AI_MODEL", "AI_MAX_TOKENS", "AI_TEMPERATURE",
   "OPENAI_ORGANIZATION", "DEFAULT_COMMIT_STYLE"}

Unset == [set |-> FALSE, val |-> << >>]

SetTo(t) == [set |-> TRUE, val |-> t]

\* process.env[name]
EnvGet(env, name) == IF env[name].set THEN Str(env[name].val) ELSE Undef

DefaultModel == << "g","p","t","-","4","o","-","m","i","n","i" >>

\* DEFAULT_CONFIG, evaluated when the module is loaded
DEFAULT_CONFIG(env) ==
  [ai |-> [apiKey |-> Or(EnvGet(env, "OPENAI_API_KEY"), Str(<< >>)),
           model |-> Or(EnvGet(env, "AI_MODEL"), Str(DefaultModel)),
           maxTokens |->
             parseInt(Or(EnvGet(env, "AI_MAX_TOKENS"),
                         Str(<< "1","0","0" >>)).s),
           temperature |->
             parseFloat(Or(EnvGet(env, "AI_TEMPERATURE"),
                           Str(<< "0",".","7" >>)).s),
           organization |-> EnvGet(env, "OPENAI_ORGANIZATION")],
   git |-> [defaultStyle |->
              Or(EnvGet(env, "DEFAULT_COMMIT_STYLE"), Str(Detailed))]]

\* the persisted file: absent, unreadable as JSON, or an object that may
\* carry an ai and a git member, each with any of its fields missing
NoFile ==
  [exists |-> FALSE, valid |-> FALSE, hasAi |-> FALSE, hasGit |-> FALSE,
   ai |-> [apiKey |-> Undef, model |-> Undef, maxTokens |-> Undef,
           temperature |-> Undef, organization |-> Undef],
   git |-> [defaultStyle |-> Undef]]

\* { ...DEFAULT_CONFIG, ...fileConfig }: a section the file carries replaces
\* the default section whole
MergedWithFile(def, file) ==
  IF file.exists
  THEN [ai  |-> IF file.hasAi THEN file.ai ELSE def.ai,
        git |-> IF file.hasGit THEN file.git ELSE def.git]
  ELSE def

\* the merged configuration with each setting replaced by its environment
\* variable when that is truthy
WithEnv(env, merged) ==
  [ai  |-> [apiKey |-> Or(EnvGet(env, "OPENAI_API_KEY"), merged.ai.apiKey),
            model |-> Or(EnvGet(env, "AI_MODEL"), merged.ai.model),
            maxTokens |->
              Or(parseInt(Or(EnvGet(env, "AI_MAX_TOKENS"), Str(<< >>)).s),
                 merged.ai.maxTokens),
            temperature |->
              Or(parseFloat(Or(EnvGet(env, "AI_TEMPERATURE"), Str(<< >>)).s),
                 merged.ai.temperature),
            organization |->
              Or(EnvGet(env, "OPENAI_ORGANIZATION"), merged.ai.organization)],
   git |-> [defaultStyle |->
              IF Truthy(EnvGet(env, "DEFAULT_COMMIT_STYLE"))
              THEN EnvGet(env, "DEFAULT_COMMIT_STYLE")
              ELSE merged.git.defaultStyle]]

\* loadConfig with DEFAULT_CONFIG given: a file that cannot be parsed leaves
\* the defaults
LoadedOver(def, env, file) ==
  IF file.exists /\ ~file.valid THEN def
  ELSE WithEnv(env, MergedWithFile(def, file))

\* ConfigManager.loadConfig
loadConfig(env, file) == LoadedOver(DEFAULT_CONFIG(env), env, file)

\* the character with UTF-16 code unit i: itself up to U+007E, but for the
\* backtick (TICK) and for the control characters without an escape, which
\* like every later character are written U+ and four hexadecimal digits
CodeUnit(i) ==
  LET ascii ==
        << "U+0000", "U+0001", "U+0002", "U+0003", "U+0004", "U+0005",
           "U+0006", "U+0007", "U+0008", "\t", "\n", "U+000B", "\f", "\r",
           "U+000E", "U+000F", "U+0010", "U+0011", "U+0012", "U+0013",
           "U+0014", "U+0015", "U+0016", "U+0017", "U+0018", "U+0019",
           "U+001A", "U+001B", "U+001C", "U+001D", "U+001E", "U+001F",
           " ", "!", "\"", "#", "$", "%", "&", "'", "(", ")", "*", "+", ",",
           "-", ".", "/", "0", "1", "2", "3", "4", "5", "6", "7", "8", "9",
           ":", ";", "<", "=", ">", "?", "@", "A", "B", "C", "D", "E", "F",
           "G", "H", "I", "J", "K", "L", "M", "N", "O", "P", "Q", "R", "S",
           "T", "U", "V", "W", "X", "Y", "Z", "[", "\\", "]", "^", "_",
           TICK, "a", "b", "c", "d", "e", "f", "g", "h", "i", "j", "k", "l",
           "m", "n", "o", "p", "q", "r", "s", "t", "u", "v", "w", "x", "y",
           "z", "{", "|", "}", "~", "U+007F" >>
      hex == << "0", "1", "2", "3", "4", "5", "6", "7", "8", "9", "A", "B",
                "C", "D", "E", "F" >>
  IN IF i < 128 THEN ascii[i + 1]
     ELSE "U+" \o hex[(i \div 4096) + 1] \o hex[((i \div 256) % 16) + 1]
          \o hex[((i \div 16) % 16) + 1] \o hex[(i % 16) + 1]

\* a < b on values: two strings are compared code unit by code unit; any
\* other pair is compared as numbers after ToNumber: NaN is less than
\* nothing and -0 is not less than 0
NumLess(a, b) ==
  LET Code(c) == CHOOSE i \in 0 .. 65535 : CodeUnit(i) = c
      \* |x| < |y| for finite x and y
      Below(x, y) ==
        \/ x.e < y.e
        \/ /\ x.e = y.e
           /\ Len(x.m) <= Len(y.m)
           /\ \/ Len(x.m) < Len(y.m)
              \/ \E i \in 1 .. Len(x.m) :
                   /\ x.m[i] < y.m[i]
                   /\ \A j \in (i + 1) .. Len(x.m) : x.m[j] = y.m[j]
      Less(x, y) ==
        IF x.k = "nan" \/ y.k = "nan" THEN FALSE
        ELSE IF x.k = "inf" THEN x.neg /\ y # x
        ELSE IF y.k = "inf" THEN ~y.neg
        ELSE IF x.m = << >> /\ y.m = << >> THEN FALSE
        ELSE IF x.neg # y.neg THEN x.neg
        ELSE IF x.neg THEN Below(y, x) ELSE Below(x, y)
  IN IF a.k = "str" /\ b.k = "str"
     THEN \E i \in 1 .. Len(b.s) :
            /\ i - 1 <= Len(a.s)
            /\ Sub(a.s, 1, i - 1) = Sub(b.s, 1, i - 1)
            /\ (i <= Len(a.s) => Code(a.s[i]) < Code(b.s[i]))
     ELSE Less(ToNumber(a), ToNumber(b))

\* ConfigManager.validateConfig: "false", "true", or the error it throws
validateConfig(config) ==
  IF ~Truthy(config.ai.apiKey) THEN "false"
  ELSE IF NumLess(config.ai.maxTokens, Num(10))
          \/ NumLess(Num(4000), config.ai.maxTokens)
  THEN "maxTokens must be between 10 and 4000"
  ELSE IF NumLess(config.ai.temperature, Num(0))
          \/ NumLess(Num(2), config.ai.temperature)
  THEN "temperature must be between 0 and 2"
  ELSE "true"

\* ConfigManager.getAIConfig: ok = FALSE stands for the thrown
\* 'OpenAI API key not found' error
getAIConfig(config) == [ok |-> Truthy(config.ai.apiKey), ai |-> config.ai]

\* ConfigManager.saveConfig: the file JSON.stringify(this.config) leaves
\* behind when the write succeeds.  A member that is undefined is left out,
\* NaN and the infinities are written as null, and -0 is written as 0
saveConfig(config) ==
  LET ToJSON(v) == IF v.k \in {"nan", "inf"} THEN Null
                   ELSE IF v.k = "num" /\ v.m = << >> THEN Num(0)
                   ELSE v IN
    [exists |-> TRUE, valid |-> TRUE, hasAi |-> TRUE, hasGit |-> TRUE,
     ai  |-> [f \in DOMAIN config.ai |-> ToJSON(config.ai[f])],
     git |-> [f \in DOMAIN config.git |-> ToJSON(config.git[f])]]

\* ConfigManager.updateConfig, before it saves: { ...this.config, ...updates },
\* a section the updates carry replaces the section whole
updateConfig(config, updates) ==
  [ai  |-> IF updates.hasAi THEN updates.ai ELSE config.ai,
   git |-> IF updates.hasGit THEN updates.git ELSE config.git]

\* ConfigManager.setAPIKey, before it saves: this.config.ai.apiKey = apiKey
setAPIKey(config, apiKey) == [config EXCEPT !.ai.apiKey = Str(apiKey)]

(***************************************************************************)
(* Version-control access (git.ts).  The outcome of a call into the git    *)
(* library is an input: ok = FALSE stands for a rejected promise.          *)
(***************************************************************************)
\* GitService.isValidRepository: true whenever checkIsRepo resolves, whatever
\* it resolves to; answer is "true", "false" or "rejected"
isValidRepository(answer) == answer # "rejected"

\* GitService.hasStagedChanges: a failing status query counts as no changes
hasStagedChanges(status) == status.ok /\ status.staged > 0

\* GitService.getCurrentBranch: the current branch, or a thrown error
getCurrentBranch(outcome) == [ok |-> outcome.ok, value |-> outcome.current]

\* last position of c in s[1 .. to], 0 when there is none
RECURSIVE LastIndexUpTo(_, _, _)
LastIndexUpTo(s, c, to) ==
  IF to < 1 THEN 0
  ELSE IF s[to] = c THEN to
  ELSE LastIndexUpTo(s, c, to - 1)

\* GitService.getRepoName: the name inside origin's fetch URL, matched by
\* /\/([^\/]+)\.git$/, undefined in every other case
getRepoName(outcome) ==
  LET url == outcome.fetch
      e   == Len(url) - 4
      j   == LastIndexUpTo(url, "/", e)
  IN IF outcome.ok /\ outcome.hasOrigin /\ url # << >>
        /\ EndsWith(url, << ".", "g", "i", "t" >>) /\ j >= 1 /\ j < e
     THEN Str(Sub(url, j + 1, e))
     ELSE Undef

\* GitService.getRecentCommits(count): the subjects, or [] on failure
getRecentCommits(outcome, count) ==
  IF outcome.ok
  THEN Sub(outcome.messages, 1,
           IF Len(outcome.messages) < count THEN Len(outcome.messages)
           ELSE count)
  ELSE << >>

\* parseGitFiles: the status of one file of the diff summary
FileStatus(f) ==
  IF f.renamed THEN "renamed"
  ELSE IF ~f.binary /\ f.insertions > 0 /\ f.deletions = 0 THEN "added"
  ELSE IF ~f.binary /\ f.insertions = 0 /\ f.deletions > 0 THEN "deleted"
  ELSE "modified"

\* parseGitFiles
parseGitFiles(files) ==
  [i \in 1 .. Len(files) |->
     [path       |-> files[i].file,
      status     |-> FileStatus(files[i]),
      insertions |-> IF files[i].binary THEN 0 ELSE files[i].insertions,
      deletions  |-> IF files[i].binary THEN 0 ELSE files[i].deletions]]

NoDiff ==
  [files |-> << >>,
   summary |-> [insertions |-> 0, deletions |-> 0, filesChanged |-> 0],
   raw |-> << >>]

\* GitService.getStagedDiff on what it has received: isRepo is what its
\* isValidRepository call returned, the rest are the answers of the git
\* library (diffOk: no diff, diffSummary or per-file diff command was
\* rejected); ok = FALSE stands for the thrown 'Failed to get git diff' error
getStagedDiff(in) ==
  IF ~in.isRepo \/ ~in.status.ok \/ in.status.staged = 0
     \/ ~in.diffOk \/ Trim(in.raw) = << >>
  THEN [ok |-> FALSE, diff |-> NoDiff]
  ELSE [ok |-> TRUE,
        diff |-> [files |-> parseGitFiles(in.files),
                  summary |-> [insertions |-> in.insertions,
                               deletions |-> in.deletions,
                               filesChanged |-> Len(in.files)],
                  raw |-> in.raw]]

(***************************************************************************)
(* The inputs of an invocation.                                            *)
(***************************************************************************)
\* the command line: three flags and an optional --style value
Argvs ==
  [commit : BOOLEAN, interactive : BOOLEAN, dryRun : BOOLEAN,
   style : {Unset, SetTo(Conventional), SetTo(Standard), SetTo(Detailed)}]

\* the options commander hands to the action: --style defaults to
\* 'conventional'
ParseOptions(a) ==
  [commit |-> a.commit, interactive |-> a.interactive, dryRun |-> a.dryRun,
   style |-> IF a.style.set THEN a.style.val ELSE Conventional]

EmptyEnv == [name \in EnvNames |-> Unset]

\* DEFAULT_CONFIG of a process that starts with no variable set
UnsetDefaults == DEFAULT_CONFIG(EmptyEnv)

KeyText == << "k" >>

\* environments of the pipeline: no credential; a credential; a credential
\* with an out-of-range max-output-size and an out-of-range temperature
PipelineEnvs ==
  {EmptyEnv,
   [EmptyEnv EXCEPT !["OPENAI_API_KEY"] = SetTo(KeyText)],
   [EmptyEnv EXCEPT !["OPENAI_API_KEY"] = SetTo(KeyText),
                    !["AI_MAX_TOKENS"] = SetTo(<< "5","0","0","0" >>),
                    !["AI_TEMPERATURE"] = SetTo(<< "2",".","5" >>)]}

\* outcomes of checkIsRepo
Probes == {"true", "false", "rejected"}

\* outcomes of git.status(), whatever checkIsRepo answered: resolved with
\* one staged file or with none, or rejected
StatusOutcomes ==
  {[ok |-> TRUE, staged |-> 1], [ok |-> TRUE, staged |-> 0],
   [ok |-> FALSE, staged |-> 0]}

RawDiffText == << "+", "a", NL, "-", "b" >>

BranchOutcomes ==
  {[ok |-> TRUE, current |-> << "d","e","v" >>],
   [ok |-> FALSE, current |-> << >>]}

RemoteOutcomes ==
  {[ok |-> TRUE, hasOrigin |-> TRUE,
    fetch |-> << "h","/","r",".","g","i","t" >>],
   [ok |-> TRUE, hasOrigin |-> FALSE, fetch |-> << >>],
   [ok |-> FALSE, hasOrigin |-> FALSE, fetch |-> << >>]}

LogOutcomes ==
  {[ok |-> TRUE, messages |-> << << "c","1" >>, << "c","2" >> >>],
   [ok |-> FALSE, messages |-> << >>]}

\* texts the provider may answer with
Contents ==
  {<< "f","i","x","(","a",")","!",":"," ","b", NL, NL, "w","h","y" >>,
   << TICK,TICK,TICK, NL, "f","e","a","t",":"," ","x", NL,
      TICK,TICK,TICK >>,
   << "A","d","d"," ","x","." >>,
   << TICK,TICK,TICK, NL, TICK,TICK,TICK >>}

\* outcomes of the provider call: an API error, another failure, or a
\* response whose content is a text (empty: no content)
ProviderOutcomes ==
  {[kind |-> "apiError", content |-> << >>],
   [kind |-> "failure", content |-> << >>],
   [kind |-> "response", content |-> << >>]}
  \cup {[kind |-> "response", content |-> c] : c \in Contents}

\* texts the user may enter when editing
\* (nothing typed: the prompt answers with its default)
EditTexts == {<< >>, << "o","k" >>, << " ","e"," " >>, << " " >>}

(***************************************************************************)
(* State.                                                                  *)
(***************************************************************************)
VARIABLES
  argv,         \* the command line of the invocation
  config,       \* configManager.config, loaded when the module is imported
  options,      \* the options of the running generateCommitMessage call
  pc,           \* where that call stands
  stack,        \* the results held by the suspended outer calls
  staged,       \* what git has answered to the running getStagedDiff call
  diff,         \* the staged diff of this attempt
  commitStyle,  \* the style of this attempt
  pending,      \* context reads still in flight
  reads,        \* what the git library answered to the context reads
  context,      \* branch, repoName, previousCommits of this attempt
  request,      \* the request handed to the provider in this attempt
  result,       \* the GeneratedCommit of this attempt
  commits,      \* the texts passed to gitService.commit, in order
  log,          \* the external steps of the invocation, in order
  err,          \* the error being thrown
  exitCode,     \* the exit condition; -1 while the process runs
  cfgEnv,       \* configuration loading: the environment
  cfgFile,      \* configuration loading: the persisted file
  cfgLoaded,    \* configuration loading: the loaded configuration
  cfgPc,        \* configuration: "idle", "start", "loaded", "done", "failed"
  fnIn,         \* a function applied on its own: its arguments
  fnOut,        \* a function applied on its own: what it returned
  fnPc          \* a function applied on its own: "idle", "start", "done"

vars ==
  << argv, config, options, pc, stack, staged, diff, commitStyle,
     pending, reads, context, request, result, commits, log, err, exitCode,
     cfgEnv, cfgFile, cfgLoaded, cfgPc, fnIn, fnOut, fnPc >>

pipeVars ==
  << argv, config, options, pc, stack, staged, diff, commitStyle,
     pending, reads, context, request, result, commits, log, err, exitCode >>

cfgVars == << cfgEnv, cfgFile, cfgLoaded, cfgPc >>

fnVars == << fnIn, fnOut, fnPc >>

NoRequest ==
  [sent |-> FALSE, model |-> Undef, max_tokens |-> Undef,
   temperature |-> Undef, style |-> << >>, branch |-> << >>,
   repoName |-> Undef, previousCommits |-> << >>, diff |-> NoDiff]

NoResult == [ok |-> FALSE, message |-> NoMessage, confidence |-> 0]

\* the answers getStagedDiff has before its first await: the same record
\* as the argument of getStagedDiff, with the files of the summary whose
\* own diff is still to be read in todo
NoAnswers ==
  [isRepo |-> FALSE, status |-> [ok |-> FALSE, staged |-> 0],
   diffOk |-> FALSE, raw |-> << >>, files |-> << >>, insertions |-> 0,
   deletions |-> 0, todo |-> << >>]

NoReads ==
  [branch |-> [ok |-> FALSE, current |-> << >>],
   repo |-> [ok |-> FALSE, hasOrigin |-> FALSE, fetch |-> << >>],
   commits |-> [ok |-> FALSE, messages |-> << >>]]

NoContext ==
  [branch |-> << >>, repoName |-> Undef, previousCommits |-> << >>]

MainBranch == << "m","a","i","n" >>

\* the locals of a generateCommitMessage call that has just been entered
FreshAttempt ==
  /\ staged' = NoAnswers
  /\ diff' = NoDiff
  /\ commitStyle' = << >>
  /\ pending' = {}
  /\ reads' = NoReads
  /\ context' = NoContext
  /\ request' = NoRequest
  /\ result' = NoResult

attemptVars ==
  << staged, diff, commitStyle, pending, reads, context, request, result >>

InitPipeline ==
  /\ argv \in Argvs
  /\ config \in {loadConfig(e, NoFile) : e \in PipelineEnvs}
  /\ options = ParseOptions(argv)
  /\ pc = "credential"
  /\ stack = << >>
  /\ staged = NoAnswers
  /\ diff = NoDiff
  /\ commitStyle = << >>
  /\ pending = {}
  /\ reads = NoReads
  /\ context = NoContext
  /\ request = NoRequest
  /\ result = NoResult
  /\ commits = << >>
  /\ log = << >>
  /\ err = "none"
  /\ exitCode = -1

CfgIdle ==
  /\ cfgEnv = EmptyEnv
  /\ cfgFile = NoFile
  /\ cfgLoaded = UnsetDefaults
  /\ cfgPc = "idle"

\* no function is applied on its own
FnIdle ==
  /\ fnIn = << >>
  /\ fnOut = << >>
  /\ fnPc = "idle"

Init == InitPipeline /\ CfgIdle /\ FnIdle

(***************************************************************************)
(* generateCommitMessage (index) and the CLI action around it (cli.ts).    *)
(* One action per stretch of code between two awaits.                      *)
(***************************************************************************)
\* throw: the error leaves the current call
Raise(e) == err' = e /\ pc' = "throw"

\* configManager.getAIConfig() in its own try/catch: a missing credential is
\* shown as 'Setup required' and the call returns
CheckCredential ==
  /\ pc = "credential"
  /\ IF getAIConfig(config).ok
     THEN /\ pc' = "isRepo"
          /\ log' = Append(log, "credential")
     ELSE /\ pc' = "return"
          /\ log' = log \o << "credential", "setup" >>
  /\ UNCHANGED << argv, config, options, stack, attemptVars, commits, err,
                  exitCode, cfgVars, fnVars >>

\* const isRepo = await gitService.isValidRepository(), checkIsRepo having
\* answered p, and the test of isRepo; the call keeps nothing of the answer
CheckRepositoryOn(p) ==
  /\ pc = "isRepo"
  /\ IF isValidRepository(p)
     THEN pc' = "staged" /\ err' = err
     ELSE Raise("notRepo")
  /\ log' = Append(log, "isRepo")
  /\ UNCHANGED << argv, config, options, stack, attemptVars, commits,
                  exitCode, cfgVars, fnVars >>

CheckRepository == \E p \in Probes : CheckRepositoryOn(p)

\* await gitService.hasStagedChanges(), git.status() having answered st, and
\* the test of what it returned
CheckStagedOn(st) ==
  /\ pc = "staged"
  /\ IF hasStagedChanges(st)
     THEN pc' = "diff" /\ err' = err
     ELSE Raise("noStaged")
  /\ log' = Append(log, "status")
  /\ UNCHANGED << argv, config, options, stack, attemptVars, commits,
                  exitCode, cfgVars, fnVars >>

CheckStaged == \E st \in StatusOutcomes : CheckStagedOn(st)

\* options.style || config.git.defaultStyle
StyleOf(opts, cfg) == Or(Str(opts.style), cfg.git.defaultStyle).s

\* getStagedDiff returns on the answers in: the diff is assigned, the style
\* is chosen and the three context reads are started.  (When it throws
\* 'Failed to get git diff' instead, nothing is assigned.)
ReturnDiff(in) ==
  /\ diff' = getStagedDiff(in).diff
  /\ commitStyle' = StyleOf(options, config)
  /\ pending' = {"branch", "repo", "commits"}
  /\ pc' = "context"
  /\ err' = err

\* await gitService.getStagedDiff(), up to its first answer:
\* await this.isValidRepository()
GetDiff ==
  /\ pc = "diff"
  /\ \E p \in Probes :
       /\ staged' = [staged EXCEPT !.isRepo = isValidRepository(p)]
       /\ IF isValidRepository(p)
          THEN /\ pc' = "diffStatus"
               /\ UNCHANGED << err, diff, commitStyle, pending >>
          ELSE /\ Raise("diff")
               /\ UNCHANGED << diff, commitStyle, pending >>
  /\ log' = Append(log, "diff")
  /\ UNCHANGED << argv, config, options, stack, reads, context,
                  request, result, commits, exitCode, cfgVars, fnVars >>

\* getStagedDiff: await this.git.status()
DiffStatus ==
  /\ pc = "diffStatus"
  /\ \E st \in StatusOutcomes :
       /\ staged' = [staged EXCEPT !.status = st]
       /\ IF st.ok /\ st.staged # 0
          THEN /\ pc' = "diffRaw"
               /\ UNCHANGED << err, diff, commitStyle, pending >>
          ELSE /\ Raise("diff")
               /\ UNCHANGED << diff, commitStyle, pending >>
  /\ UNCHANGED << argv, config, options, stack, reads, context,
                  request, result, commits, log, exitCode, cfgVars,
                  fnVars >>

\* getStagedDiff: await this.git.diff(['--staged']); the answer is a diff,
\* a blank text, or a rejection
DiffRaw ==
  /\ pc = "diffRaw"
  /\ \E a \in {[ok |-> TRUE, raw |-> RawDiffText],
               [ok |-> TRUE, raw |-> << NL >>],
               [ok |-> FALSE, raw |-> << >>]} :
       /\ staged' = [staged EXCEPT !.diffOk = a.ok, !.raw = a.raw]
       /\ IF a.ok /\ Trim(a.raw) # << >>
          THEN /\ pc' = "diffSummary"
               /\ UNCHANGED << err, diff, commitStyle, pending >>
          ELSE /\ Raise("diff")
               /\ UNCHANGED << diff, commitStyle, pending >>
  /\ UNCHANGED << argv, config, options, stack, reads, context,
                  request, result, commits, log, exitCode, cfgVars,
                  fnVars >>

\* getStagedDiff: await this.git.diffSummary(['--staged']); the answer is a
\* summary of one file, or a rejection.  parseGitFiles then reads the diff
\* of each file of the summary; with no file it returns at once
DiffSummary ==
  /\ pc = "diffSummary"
  /\ \E a \in {[ok |-> TRUE, insertions |-> 1, deletions |-> 1,
                files |-> << [file |-> << "f" >>, binary |-> FALSE,
                              insertions |-> 1, deletions |-> 1] >>],
               [ok |-> FALSE, insertions |-> 0, deletions |-> 0,
                files |-> << >>]} :
       /\ staged' = [staged EXCEPT !.diffOk = a.ok, !.todo = a.files,
                                   !.insertions = a.insertions,
                                   !.deletions = a.deletions]
       /\ IF ~a.ok
          THEN /\ Raise("diff")
               /\ UNCHANGED << diff, commitStyle, pending >>
          ELSE IF a.files = << >> THEN ReturnDiff(staged')
          ELSE /\ pc' = "diffFile"
               /\ UNCHANGED << err, diff, commitStyle, pending >>
  /\ UNCHANGED << argv, config, options, stack, reads, context,
                  request, result, commits, log, exitCode, cfgVars,
                  fnVars >>

\* parseGitFiles: await this.git.diff(['--staged', '--', file.file]) for the
\* next file of the summary; after the last file getStagedDiff returns
DiffFile ==
  /\ pc = "diffFile"
  /\ \E a \in {[ok |-> TRUE, renamed |-> FALSE],
               [ok |-> FALSE, renamed |-> FALSE]} :
       LET f == Head(staged.todo) IN
         /\ staged' =
              [staged EXCEPT
                 !.diffOk = a.ok,
                 !.todo = Tail(@),
                 !.files = Append(@, [file |-> f.file, binary |-> f.binary,
                                      insertions |-> f.insertions,
                                      deletions |-> f.deletions,
                                      renamed |-> a.renamed])]
         /\ IF ~a.ok
            THEN /\ Raise("diff")
                 /\ UNCHANGED << diff, commitStyle, pending >>
            ELSE IF Tail(staged.todo) = << >> THEN ReturnDiff(staged')
            ELSE /\ pc' = "diffFile"
                 /\ UNCHANGED << err, diff, commitStyle, pending >>
  /\ UNCHANGED << argv, config, options, stack, reads, context,
                  request, result, commits, log, exitCode, cfgVars,
                  fnVars >>

\* the branch read without its fallback to 'main'
BranchWithoutDefault(outcome) == getCurrentBranch(outcome).value

\* gitService.getCurrentBranch().catch(() => 'main')
BranchOrMain(outcome) ==
  LET r == getCurrentBranch(outcome) IN
    IF r.ok THEN r.value ELSE MainBranch

ReadBranch ==
  /\ pc = "context" /\ "branch" \in pending
  /\ \E o \in BranchOutcomes :
       /\ reads' = [reads EXCEPT !.branch = o]
       /\ context' = [context EXCEPT !.branch = BranchOrMain(o)]
  /\ pending' = pending \ {"branch"}
  /\ UNCHANGED << argv, config, options, pc, stack, staged, diff,
                  commitStyle, request, result, commits, log, err, exitCode,
                  cfgVars, fnVars >>

\* gitService.getRepoName().catch(() => undefined)
ReadRepoName ==
  /\ pc = "context" /\ "repo" \in pending
  /\ \E o \in RemoteOutcomes :
       /\ reads' = [reads EXCEPT !.repo = o]
       /\ context' = [context EXCEPT !.repoName = getRepoName(o)]
  /\ pending' = pending \ {"repo"}
  /\ UNCHANGED << argv, config, options, pc, stack, staged, diff,
                  commitStyle, request, result, commits, log, err, exitCode,
                  cfgVars, fnVars >>

\* gitService.getRecentCommits(3).catch(() => [])
ReadRecentCommits ==
  /\ pc = "context" /\ "commits" \in pending
  /\ \E o \in LogOutcomes :
       /\ reads' = [reads EXCEPT !.commits = o]
       /\ context' =
            [context EXCEPT !.previousCommits = getRecentCommits(o, 3)]
  /\ pending' = pending \ {"commits"}
  /\ UNCHANGED << argv, config, options, pc, stack, staged, diff,
                  commitStyle, request, result, commits, log, err, exitCode,
                  cfgVars, fnVars >>

\* the request of AIService.generateCommitMessage: the context and the
\* model, max_tokens and temperature of the configuration
BuildRequest(ai, style, ctx, d) ==
  [sent |-> TRUE, model |-> ai.model, max_tokens |-> ai.maxTokens,
   temperature |-> ai.temperature, style |-> style, branch |-> ctx.branch,
   repoName |-> ctx.repoName, previousCommits |-> ctx.previousCommits,
   diff |-> d]

\* Promise.all has settled: createAIService(configManager.getAIConfig()) and
\* the call of openai.chat.completions.create
CallProvider ==
  /\ pc = "context" /\ pending = {}
  /\ LET ai == getAIConfig(config) IN
       IF ai.ok
       THEN /\ request' = BuildRequest(ai.ai, commitStyle, context, diff)
            /\ log' = Append(log, "provider")
            /\ pc' = "awaitProvider"
            /\ err' = err
       ELSE /\ Raise("config")
            /\ UNCHANGED << request, log >>
  /\ UNCHANGED << argv, config, options, stack, staged, diff,
                  commitStyle, pending, reads, context, result, commits,
                  exitCode, cfgVars, fnVars >>

\* generateCommitMessage swallowing every failure of the provider call
generateResultSwallowing(outcome, style) ==
  [ok |-> TRUE, err |-> "none",
   result |-> parseAIResponse(outcome.content, style)]

\* AIService.generateCommitMessage after the provider has answered: an API
\* error and every other failure (no content, an empty response) are
\* rethrown wrapped; a content is parsed
generateResult(outcome, style) ==
  LET parsed == parseAIResponse(outcome.content, style) IN
    IF outcome.kind = "apiError"
    THEN [ok |-> FALSE, err |-> "apiError", result |-> NoResult]
    ELSE IF outcome.kind # "response" \/ outcome.content = << >>
            \/ ~parsed.ok
    THEN [ok |-> FALSE, err |-> "generate", result |-> NoResult]
    ELSE [ok |-> TRUE, err |-> "none", result |-> parsed]

\* the mode with the interactive test placed before the dry-run test
ModeOfInteractiveFirst(opts) ==
  IF opts.interactive \/ (~opts.commit /\ ~opts.dryRun) THEN "prompt"
  ELSE IF opts.dryRun THEN "dryRun"
  ELSE IF opts.commit THEN "commit"
  ELSE "none"

\* the mode with a prompt condition that forgets the --commit flag
ModeOfPromptUnlessDryRun(opts) ==
  IF opts.dryRun THEN "dryRun"
  ELSE IF opts.interactive \/ ~opts.dryRun THEN "prompt"
  ELSE IF opts.commit THEN "commit"
  ELSE "none"

\* the mode of an invocation once a message has been generated and shown
ModeOf(opts) ==
  IF opts.dryRun THEN "dryRun"
  ELSE IF opts.interactive \/ (~opts.commit /\ ~opts.dryRun) THEN "prompt"
  ELSE IF opts.commit THEN "commit"
  ELSE "none"

\* the argument generateCommitMessage gives to performCommit for the
\* generated message
CommitText(res) == res.message.title

\* performCommit(message): gitService.commit is invoked with the text
PerformCommit(text) ==
  /\ commits' = Append(commits, text)
  /\ log' = Append(log, "commit")
  /\ pc' = "committing"

\* the provider answers, with a failed call sent once more instead of
\* being thrown
ProviderReturnsRetrying ==
  /\ pc = "awaitProvider"
  /\ \E o \in ProviderOutcomes :
       LET r == generateResult(o, commitStyle) IN
         IF ~r.ok
         THEN /\ pc' = "awaitProvider"
              /\ err' = err
              /\ log' = Append(log, "provider")
              /\ Count("provider", log) < 2 * MaxAttempts
              /\ UNCHANGED << result, commits >>
         ELSE /\ result' = r.result
              /\ err' = err
              /\ CASE ModeOf(options) = "prompt" ->
                        /\ pc' = "prompt"
                        /\ log' = Append(log, "prompt")
                        /\ commits' = commits
                   [] ModeOf(options) = "commit" ->
                        PerformCommit(CommitText(r.result))
                   [] OTHER ->
                        /\ pc' = "return"
                        /\ UNCHANGED << commits, log >>
  /\ UNCHANGED << argv, config, options, stack, staged, diff,
                  commitStyle, pending, reads, context, request, exitCode,
                  cfgVars, fnVars >>

\* the provider answers; the message is displayed and the mode decides
ProviderReturns ==
  /\ pc = "awaitProvider"
  /\ \E o \in ProviderOutcomes :
       LET r == generateResult(o, commitStyle) IN
         IF ~r.ok
         THEN /\ Raise(r.err)
              /\ UNCHANGED << result, commits, log >>
         ELSE /\ result' = r.result
              /\ err' = err
              /\ CASE ModeOf(options) = "prompt" ->
                        /\ pc' = "prompt"
                        /\ log' = Append(log, "prompt")
                        /\ commits' = commits
                   [] ModeOf(options) = "commit" ->
                        PerformCommit(CommitText(r.result))
                   [] OTHER ->
                        /\ pc' = "return"
                        /\ UNCHANGED << commits, log >>
  /\ UNCHANGED << argv, config, options, stack, staged, diff,
                  commitStyle, pending, reads, context, request, exitCode,
                  cfgVars, fnVars >>

Actions == {"commit", "edit", "regenerate", "cancel"}

\* promptForAction() has answered with 'commit'
ChooseCommit ==
  /\ pc = "prompt"
  /\ PerformCommit(CommitText(result))
  /\ UNCHANGED << argv, config, options, stack, attemptVars, err, exitCode,
                  cfgVars, fnVars >>

\* promptForAction() has answered with 'edit': promptForEdit is shown
ChooseEdit ==
  /\ pc = "prompt"
  /\ pc' = "edit"
  /\ log' = Append(log, "edit")
  /\ UNCHANGED << argv, config, options, stack, attemptVars, commits, err,
                  exitCode, cfgVars, fnVars >>

\* a regeneration that goes straight to the repository check, without the
\* credential check
ChooseRegenerateUnchecked ==
  /\ pc = "prompt"
  /\ Len(stack) + 1 < MaxAttempts
  /\ stack' = Append(stack, result)
  /\ options' = [options EXCEPT !.interactive = TRUE]
  /\ FreshAttempt
  /\ pc' = "isRepo"
  /\ UNCHANGED << argv, config, commits, log, err, exitCode, cfgVars, fnVars >>

\* promptForAction() has answered with 'regenerate': the function calls
\* itself with interactive forced on
ChooseRegenerate ==
  /\ pc = "prompt"
  /\ Len(stack) + 1 < MaxAttempts
  /\ stack' = Append(stack, result)
  /\ options' = [options EXCEPT !.interactive = TRUE]
  /\ FreshAttempt
  /\ pc' = "credential"
  /\ UNCHANGED << argv, config, commits, log, err, exitCode, cfgVars, fnVars >>

\* promptForAction() has answered with 'cancel'
ChooseCancel ==
  /\ pc = "prompt"
  /\ pc' = "return"
  /\ UNCHANGED << argv, config, options, stack, attemptVars, commits, log,
                  err, exitCode, cfgVars, fnVars >>

\* an edit prompt that hands back the text as typed, blanks included
promptForEditUntrimmed(originalMessage, typed) ==
  LET text == IF typed = << >> THEN originalMessage ELSE typed IN
    IF Trim(text) = << >> THEN << >> ELSE text

\* promptForEdit(originalMessage) for the text typed: the trimmed text, or
\* the empty text for null
promptForEdit(originalMessage, typed) ==
  Trim(IF typed = << >> THEN originalMessage ELSE typed)

\* the user has answered promptForEdit
UserEdits ==
  /\ pc = "edit"
  /\ \E t \in EditTexts :
       LET edited == promptForEdit(result.message.title, t) IN
         IF edited # << >>
         THEN PerformCommit(edited)
         ELSE pc' = "return" /\ UNCHANGED << commits, log >>
  /\ UNCHANGED << argv, config, options, stack, attemptVars, err, exitCode,
                  cfgVars, fnVars >>

\* gitService.commit has settled
CommitReturns ==
  /\ pc = "committing"
  /\ \E ok \in BOOLEAN :
       IF ok THEN pc' = "return" /\ err' = err ELSE Raise("commit")
  /\ UNCHANGED << argv, config, options, stack, attemptVars, commits, log,
                  exitCode, cfgVars, fnVars >>

\* a call returns: into the outer call, which leaves its switch and
\* returns as well, or into the CLI action, which ends normally
Return ==
  /\ pc = "return"
  /\ IF stack # << >>
     THEN /\ stack' = SubSeq(stack, 1, Len(stack) - 1)
          /\ UNCHANGED << pc, exitCode >>
     ELSE /\ pc' = "done"
          /\ exitCode' = 0
          /\ stack' = stack
  /\ UNCHANGED << argv, config, options, attemptVars, commits, log, err,
                  cfgVars, fnVars >>

\* an error propagates: rethrown by each outer call, then caught by the CLI
\* action, which reports it and exits with 1
Throw ==
  /\ pc = "throw"
  /\ IF stack # << >>
     THEN /\ stack' = SubSeq(stack, 1, Len(stack) - 1)
          /\ UNCHANGED << pc, exitCode, log >>
     ELSE /\ pc' = "done"
          /\ exitCode' = 1
          /\ log' = Append(log, "error")
          /\ stack' = stack
  /\ UNCHANGED << argv, config, options, attemptVars, commits, err,
                  cfgVars, fnVars >>

Next ==
  \/ CheckCredential
  \/ CheckRepository
  \/ CheckStaged
  \/ GetDiff
  \/ DiffStatus
  \/ DiffRaw
  \/ DiffSummary
  \/ DiffFile
  \/ ReadBranch
  \/ ReadRepoName
  \/ ReadRecentCommits
  \/ CallProvider
  \/ ProviderReturns
  \/ ChooseCommit
  \/ ChooseEdit
  \/ ChooseRegenerate
  \/ ChooseCancel
  \/ UserEdits
  \/ CommitReturns
  \/ Return
  \/ Throw

Spec == Init /\ [][Next]_vars

(***************************************************************************)
(* The pipeline under fairness: every pending await settles and every      *)
(* prompt is answered, so a step that can be taken is taken.  MaxAttempts  *)
(* bounds how often the user answers 'regenerate'.                         *)
(***************************************************************************)
SpecFair == Spec /\ WF_vars(Next)

(***************************************************************************)
(* Configuration on its own: the environment and the persisted file are    *)
(* drawn from bounded sets, the ConfigManager is constructed, and the      *)
(* config command changes and saves the configuration.                     *)
(***************************************************************************)
\* the environments: every variable unset, or every variable set, and each
\* of the two with one variable changed to any of its choices
CfgEnvs ==
  LET EnvChoices(name) ==
        CASE name = "OPENAI_API_KEY" ->
               {Unset, SetTo(<< >>), SetTo(KeyText)}
          [] name = "AI_MODEL" -> {Unset, SetTo(<< "m" >>)}
          [] name = "AI_MAX_TOKENS" ->
               {Unset, SetTo(<< "0" >>), SetTo(<< "1","5","0" >>),
                SetTo(<< "x" >>)}
          [] name = "AI_TEMPERATURE" ->
               {Unset, SetTo(<< "0" >>), SetTo(<< "1",".","5" >>),
                SetTo(<< "1","e","-","4","0","0" >>)}
          [] name = "OPENAI_ORGANIZATION" -> {Unset, SetTo(<< "o" >>)}
          [] name = "DEFAULT_COMMIT_STYLE" -> {Unset, SetTo(Standard)}
      AllSet == [EmptyEnv EXCEPT
                   !["OPENAI_API_KEY"] = SetTo(KeyText),
                   !["AI_MODEL"] = SetTo(<< "m" >>),
                   !["AI_MAX_TOKENS"] = SetTo(<< "1","5","0" >>),
                   !["AI_TEMPERATURE"] = SetTo(<< "1",".","5" >>),
                   !["OPENAI_ORGANIZATION"] = SetTo(<< "o" >>),
                   !["DEFAULT_COMMIT_STYLE"] = SetTo(Standard)]
  IN UNION {{[base EXCEPT ![name] = c] : c \in EnvChoices(name)} :
              base \in {EmptyEnv, AllSet}, name \in EnvNames}

\* the files: none, one that is not JSON, and objects with or without an ai
\* and a git section.  An ai section has every member missing, or every
\* member present, and each of the two with one member changed
CfgFiles ==
  LET AllSet  == [apiKey |-> Str(<< "f" >>), model |-> Str(<< "g" >>),
                  maxTokens |-> Num(200), temperature |-> Dec(5, 1),
                  organization |-> Str(<< "p" >>)]
      FileAis ==
        UNION {{[base EXCEPT ![f] = v] : v \in {Undef, AllSet[f]}} :
                 base \in {NoFile.ai, AllSet}, f \in DOMAIN AllSet}
  IN {NoFile, [NoFile EXCEPT !.exists = TRUE]}
     \cup {[exists |-> TRUE, valid |-> TRUE, hasAi |-> ha, hasGit |-> hg,
            ai |-> a, git |-> g] :
             ha \in BOOLEAN, hg \in BOOLEAN, a \in FileAis,
             g \in [defaultStyle : {Undef, Str(Conventional)}]}

PipeIdle ==
  /\ argv = [commit |-> FALSE, interactive |-> FALSE, dryRun |-> FALSE,
             style |-> Unset]
  /\ config = UnsetDefaults
  /\ options = ParseOptions(argv)
  /\ pc = "idle"
  /\ stack = << >>
  /\ staged = NoAnswers
  /\ diff = NoDiff
  /\ commitStyle = << >>
  /\ pending = {}
  /\ reads = NoReads
  /\ context = NoContext
  /\ request = NoRequest
  /\ result = NoResult
  /\ commits = << >>
  /\ log = << >>
  /\ err = "none"
  /\ exitCode = -1

InitConfig ==
  /\ cfgEnv \in CfgEnvs
  /\ cfgFile \in CfgFiles
  /\ cfgLoaded = UnsetDefaults
  /\ cfgPc = "start"
  /\ PipeIdle
  /\ FnIdle

\* new ConfigManager(), when a process imports the module:
\* this.config = this.loadConfig().  After a config command has ended, the
\* next process loads what the command left in the file
LoadConfig ==
  /\ cfgPc \in {"start", "done", "failed"}
  /\ cfgLoaded' = loadConfig(cfgEnv, cfgFile)
  /\ cfgPc' = "loaded"
  /\ UNCHANGED << cfgEnv, cfgFile, pipeVars, fnVars >>

\* what a save that throws leaves of the file: the file as it was (the
\* directory could not be made, or the file not opened), a file cut short,
\* which is not JSON (writeFileSync empties the file when it opens it), or
\* the whole text (the failure came after the last write)
FailedSave(file, cfg, leaves) ==
  CASE leaves = "asBefore" -> file
    [] leaves = "cutShort" -> [NoFile EXCEPT !.exists = TRUE]
    [] leaves = "whole"    -> saveConfig(cfg)

\* the action of the config command (cli.ts), which has no await: --show
\* prints and returns; otherwise --api-key, --model and --style, each when
\* given a non-empty value, change the configuration and save it, in this
\* order.  A save that fails throws (failAt names the setting whose save
\* fails, if any does): the configuration is changed, the file is what the
\* failed save leaves of it, the settings after it are not applied and the
\* process exits with 1 ("failed")
ConfigCommand ==
  /\ cfgPc = "loaded"
  /\ \E o \in [show : BOOLEAN,
                apiKey : {Unset, SetTo(<< >>), SetTo(<< "k","2" >>)},
                model : {Unset, SetTo(<< "z","z" >>)},
                style : {Unset, SetTo(Standard)}],
        failAt \in {"none", "apiKey", "model", "style"},
        leaves \in {"asBefore", "cutShort", "whole"} :
       LET Given(x) == x.set /\ x.val # << >>
           Saved(file, c, name) ==
             IF failAt = name THEN FailedSave(file, c, leaves)
             ELSE saveConfig(c)
           c1  == IF Given(o.apiKey) THEN setAPIKey(cfgLoaded, o.apiKey.val)
                  ELSE cfgLoaded
           ok1 == Given(o.apiKey) => failAt # "apiKey"
           f1  == IF Given(o.apiKey) THEN Saved(cfgFile, c1, "apiKey")
                  ELSE cfgFile
           c2  == IF ok1 /\ Given(o.model)
                  THEN updateConfig(c1,
                         [hasAi |-> TRUE, hasGit |-> FALSE, git |-> c1.git,
                          ai |-> [c1.ai EXCEPT !.model = Str(o.model.val)]])
                  ELSE c1
           ok2 == ok1 /\ (Given(o.model) => failAt # "model")
           f2  == IF ok1 /\ Given(o.model) THEN Saved(f1, c2, "model")
                  ELSE f1
           c3  == IF ok2 /\ Given(o.style)
                  THEN updateConfig(c2,
                         [hasAi |-> FALSE, hasGit |-> TRUE, ai |-> c2.ai,
                          git |-> [c2.git EXCEPT
                                     !.defaultStyle = Str(o.style.val)]])
                  ELSE c2
           ok3 == ok2 /\ (Given(o.style) => failAt # "style")
           f3  == IF ok2 /\ Given(o.style) THEN Saved(f2, c3, "style")
                  ELSE f2
       IN IF o.show
          THEN /\ cfgPc' = "done"
               /\ UNCHANGED << cfgLoaded, cfgFile >>
          ELSE /\ cfgLoaded' = c3
               /\ cfgFile' = f3
               /\ cfgPc' = IF ok3 THEN "done" ELSE "failed"
  /\ UNCHANGED << cfgEnv, pipeVars, fnVars >>

SpecConfig == InitConfig /\ [][LoadConfig \/ ConfigCommand]_vars

(***************************************************************************)
(* Functions applied on their own.  The arguments are drawn from bounded   *)
(* sets, the function is applied once and its result is kept.              *)
(***************************************************************************)
\* longest raw response text enumerated character by character
MaxRawLen == 4

\* every text of at most MaxRawLen characters over a letter, a space, a
\* line break and a backtick
RawTexts == UNION {[1 .. k -> {"a", " ", NL, TICK}] : k \in 0 .. MaxRawLen}

\* a fenced block: three backticks, a language tag, a line break, the
\* content, and the closing fence on a last line of its own
Fenced(tag, content) ==
  << TICK, TICK, TICK >> \o tag \o << NL >> \o content
    \o << NL, TICK, TICK, TICK >>

\* a fenced block with no content line
EmptyFence == << TICK, TICK, TICK, NL, TICK, TICK, TICK >>

\* first lines built like a conventional title, with parts left out or
\* malformed
TitleTexts ==
  LET words  == {<< >>, << "f" >>, << "F", "e", "_", "1" >>}
      scopes == {<< >>, << "(", ")" >>, << "(", "s", ")" >>, << "(", "s" >>,
                 << "(", "a", " ", "b", ")" >>}
      gaps   == {<< >>, << " " >>, << " ", " " >>, << "\t" >>}
      rests  == {<< >>, << "x" >>, << "x", " ", "y", "." >>}
  IN {w \o sc \o b \o c \o g \o r :
        w \in words, sc \in scopes, b \in {<< >>, << "!" >>},
        c \in {<< >>, << ":" >>}, g \in gaps, r \in rests}

ResponseTexts ==
  RawTexts \cup TitleTexts \cup {EmptyFence}
    \cup {Fenced(<< >>, t) : t \in {<< "f", ":", " ", "x" >>, << >>}}
    \cup {t \o << NL, NL, "w", "h", "y" >> :
            t \in {<< "f", ":", " ", "x" >>, << "f", "!", ":", "x" >>}}

InitParse ==
  /\ fnIn \in [content : ResponseTexts, style : CommitStyle]
  /\ fnOut = << >>
  /\ fnPc = "start"
  /\ PipeIdle
  /\ CfgIdle

\* parseAIResponse(content, style) is called and returns or throws
ParseResponse ==
  /\ fnPc = "start"
  /\ fnOut' = parseAIResponse(fnIn.content, fnIn.style)
  /\ fnPc' = "done"
  /\ UNCHANGED << fnIn, pipeVars, cfgVars >>

SpecParse == InitParse /\ [][ParseResponse]_vars

(***************************************************************************)
(* The parser applied to a fenced block and to the block's content.        *)
(***************************************************************************)
InitFence ==
  /\ fnIn \in [tag : {<< >>, << "t", "s" >>}, content : RawTexts,
               style : CommitStyle]
  /\ fnOut = << >>
  /\ fnPc = "start"
  /\ PipeIdle
  /\ CfgIdle

\* parseAIResponse is called with the fenced block and with the content alone
ParseFenced ==
  /\ fnPc = "start"
  /\ fnOut' =
       [fenced |-> parseAIResponse(Fenced(fnIn.tag, fnIn.content),
                                   fnIn.style),
        alone  |-> parseAIResponse(fnIn.content, fnIn.style)]
  /\ fnPc' = "done"
  /\ UNCHANGED << fnIn, pipeVars, cfgVars >>

SpecFence == InitFence /\ [][ParseFenced]_vars

(***************************************************************************)
(* calculateConfidence applied on its own.                                 *)
(***************************************************************************)
\* longest title and longest body scored
MaxTitleLen == 52

MaxBodyLen == 22

\* a title of n characters: a first character, then x's, with a colon in
\* second place and a period at the end when asked for and when they fit
TitleOf(first, n, colon, dot) ==
  [i \in 1 .. n |->
     IF i = 1 THEN first
     ELSE IF dot /\ i = n THEN "."
     ELSE IF colon /\ i = 2 THEN ":"
     ELSE "x"]

ScoredTitles ==
  {TitleOf(first, n, colon, dot) :
     first \in {"a", "A", "1", ".", ":"}, n \in 0 .. MaxTitleLen,
     colon \in BOOLEAN, dot \in BOOLEAN}

\* a body of n characters; the empty one stands for an absent body
ScoredBodies == {[i \in 1 .. n |-> "b"] : n \in 0 .. MaxBodyLen}

InitConfidence ==
  /\ fnIn \in [title : ScoredTitles, body : ScoredBodies]
  /\ fnOut = << >>
  /\ fnPc = "start"
  /\ PipeIdle
  /\ CfgIdle

\* calculateConfidence(title, body) is called and returns
ScoreMessage ==
  /\ fnPc = "start"
  /\ fnOut' = calculateConfidence(fnIn.title, fnIn.body)
  /\ fnPc' = "done"
  /\ UNCHANGED << fnIn, pipeVars, cfgVars >>

SpecConfidence == InitConfidence /\ [][ScoreMessage]_vars

(***************************************************************************)
(* The formatter followed by the validator.                                *)
(***************************************************************************)
\* messages with and without each field; titles and scopes with blanks,
\* parentheses and line breaks
FormatMessages ==
  LET types   == CommitTypes \cup {<< >>, << "w", "i", "p" >>}
      titles  == {<< >>, << "x" >>, << " " >>,
                  << "a", "d", "d", " ", "x", "." >>, << "x", NL, "y" >>,
                  << NL, "x" >>, << "\r", "x" >>}
      scopes  == {<< >>, << "s" >>, << "a", ")", "b" >>,
                  << "a", " ", "(", "b" >>, << "a", NL, "b" >>}
      bodies  == {<< >>, << "w", "h", "y" >>}
      footers == {<< >>, << "R", "e", "f", "s", " ", "1" >>}
  IN {CommitMessage(title, body, type, scope, breaking, footer) :
        title \in titles, body \in bodies, type \in types,
        scope \in scopes, breaking \in BOOLEAN, footer \in footers}

InitFormat ==
  /\ fnIn \in [message : FormatMessages, style : CommitStyle]
  /\ fnOut = << >>
  /\ fnPc = "start"
  /\ PipeIdle
  /\ CfgIdle

\* formatCommitMessage(message, style) is called and its text is handed to
\* validateCommitMessage with the same style
FormatThenValidate ==
  /\ fnPc = "start"
  /\ LET text == formatCommitMessage(fnIn.message, fnIn.style) IN
       fnOut' = [text  |-> text,
                 valid |-> validateCommitMessage(text, fnIn.style)]
  /\ fnPc' = "done"
  /\ UNCHANGED << fnIn, pipeVars, cfgVars >>

SpecFormat == InitFormat /\ [][FormatThenValidate]_vars

(***************************************************************************)
(* validateCommitMessage applied on its own.                               *)
(***************************************************************************)
\* longest first line validated
MaxLineLen == 52

\* texts built like a conventional message, with parts left out or
\* malformed
ConventionalShaped ==
  LET tags   == CommitTypes
                  \cup {<< >>, << "w", "i", "p" >>, << "F", "e", "a", "t" >>,
                        << "f", "i", "x", "e", "s" >>}
      scopes == {<< >>, << "(", ")" >>, << "(", "s", ")" >>, << "(", "s" >>,
                 << "(", "a", ")", "(", "b", ")" >>, << "(", "a", NL, ")" >>}
      seps   == {<< >>, << ":" >>, << ":", " " >>, << ":", "\t" >>,
                 << ":", NL >>, << ":", " ", " " >>}
      descs  == {<< >>, << "x" >>, << "x", NL, "y" >>, << NL, "x" >>}
  IN {pre \o tag \o scope \o bang \o sep \o desc :
        pre \in {<< >>, << " " >>}, tag \in tags, scope \in scopes,
        bang \in {<< >>, << "!" >>}, sep \in seps, desc \in descs}

\* a first line of n characters, ending with a period when asked for
LineOf(n, dot) == [i \in 1 .. n |-> IF dot /\ i = n THEN "." ELSE "x"]

\* a later line of more than 50 characters that ends with a period
LaterLine == << NL >> \o [i \in 1 .. 52 |-> IF i = 52 THEN "." ELSE "y"]

LineShaped ==
  {LineOf(n, dot) \o rest :
     n \in 0 .. MaxLineLen, dot \in BOOLEAN,
     rest \in {<< >>, << NL, "y" >>, LaterLine}}

\* a style that is none of the three
OtherStyle == << "f", "a", "n", "c", "y" >>

InitValidate ==
  /\ fnIn \in [message : ConventionalShaped \cup LineShaped \cup {<< " " >>},
               style : CommitStyle \cup {OtherStyle}]
  /\ fnOut = << >>
  /\ fnPc = "start"
  /\ PipeIdle
  /\ CfgIdle

\* validateCommitMessage(message, style) is called and returns
ValidateMessage ==
  /\ fnPc = "start"
  /\ fnOut' = validateCommitMessage(fnIn.message, fnIn.style)
  /\ fnPc' = "done"
  /\ UNCHANGED << fnIn, pipeVars, cfgVars >>

SpecValidate == InitValidate /\ [][ValidateMessage]_vars

(***************************************************************************)
(* truncateDiff applied on its own, as buildPrompt calls it.               *)
(***************************************************************************)
\* how far beyond the limit the longest raw diff goes
MaxOver == 3

\* a raw diff of n characters with line breaks at the given positions
DiffOf(n, breaks) == [i \in 1 .. n |-> IF i \in breaks THEN NL ELSE "x"]

\* lengths and line-break positions on both sides of the limit
RawDiffs ==
  LET lengths   == {0, 1} \cup ((DiffLimit - 1) .. (DiffLimit + MaxOver))
      positions == {1, 1500} \cup ((DiffLimit - 1) .. (DiffLimit + 2))
  IN {DiffOf(n, breaks) : n \in lengths, breaks \in SUBSET positions}

InitTruncate ==
  /\ fnIn \in [raw : RawDiffs]
  /\ fnOut = << >>
  /\ fnPc = "start"
  /\ PipeIdle
  /\ CfgIdle

\* const truncatedDiff = this.truncateDiff(diff.raw, 3000)
TruncateDiff ==
  /\ fnPc = "start"
  /\ fnOut' = [embedded |-> truncateDiff(fnIn.raw, DiffLimit)]
  /\ fnPc' = "done"
  /\ UNCHANGED << fnIn, pipeVars, cfgVars >>

SpecTruncate == InitTruncate /\ [][TruncateDiff]_vars

(***************************************************************************)
(* buildPrompt applied on its own.                                         *)
(***************************************************************************)
\* most files in a diff summary
MaxFiles == 3

\* contexts whose diff lists up to MaxFiles of four file changes, two of
\* them with the same path
PromptContexts ==
  LET choices ==
        {[path |-> << "a", ".", "t", "s" >>, status |-> "added",
          insertions |-> 12, deletions |-> 0],
         [path |-> << "b", "/", "c" >>, status |-> "modified",
          insertions |-> 3, deletions |-> 104],
         [path |-> << "b", "/", "c" >>, status |-> "renamed",
          insertions |-> 0, deletions |-> 0],
         [path |-> << "d" >>, status |-> "copied",
          insertions |-> 0, deletions |-> 7]}
      lists == UNION {[1 .. n -> choices] : n \in 0 .. MaxFiles}
      diffs ==
        {[files |-> files,
          summary |-> [insertions |-> 1, deletions |-> 1,
                       filesChanged |-> Len(files)],
          raw |-> RawDiffText] : files \in lists}
  IN [diff : diffs,
      style : {Conventional, Standard},
      repoName : {<< >>, << "r" >>},
      branch : {<< >>, << "d", "e", "v" >>},
      previousCommits :
        {<< >>, << << "c", "1" >> >>,
         << << "c", "1" >>, << "c", "2" >>, << "c", "3" >>,
            << "c", "4" >> >>}]

InitPrompt ==
  /\ fnIn \in PromptContexts
  /\ fnOut = << >>
  /\ fnPc = "start"
  /\ PipeIdle
  /\ CfgIdle

\* const prompt = this.buildPrompt(context)
BuildPrompt ==
  /\ fnPc = "start"
  /\ fnOut' = [prompt |-> buildPrompt(fnIn)]
  /\ fnPc' = "done"
  /\ UNCHANGED << fnIn, pipeVars, cfgVars >>

SpecPrompt == InitPrompt /\ [][BuildPrompt]_vars

(***************************************************************************)
(* The response interpreter followed by the formatter.                     *)
(***************************************************************************)
InitRound ==
  /\ fnIn \in [content : ResponseTexts, style : CommitStyle]
  /\ fnOut = << >>
  /\ fnPc = "start"
  /\ PipeIdle
  /\ CfgIdle

\* parseAIResponse(content, style) is called and, unless it throws, its
\* message is handed to formatCommitMessage with the same style
ParseThenFormat ==
  /\ fnPc = "start"
  /\ LET parsed == parseAIResponse(fnIn.content, fnIn.style) IN
       fnOut' = [parsed |-> parsed,
                 text   |-> IF parsed.ok
                            THEN formatCommitMessage(parsed.message,
                                                     fnIn.style)
                            ELSE << >>]
  /\ fnPc' = "done"
  /\ UNCHANGED << fnIn, pipeVars, cfgVars >>

SpecRound == InitRound /\ [][ParseThenFormat]_vars

(***************************************************************************)
(* Properties.                                                             *)
(***************************************************************************)
\* position of the last "credential" entry of the log: the start of the
\* running attempt
RECURSIVE LastStart(_)
LastStart(n) ==
  IF n = 0 THEN 0
  ELSE IF log[n] = "credential" THEN n
  ELSE LastStart(n - 1)

\* the steps of the running attempt
AttemptLog == Sub(log, LastStart(Len(log)) + 1, Len(log))

InRange(v, lo, hi) ==
  v.k = "num" /\ ~NumLess(v, Num(lo)) /\ ~NumLess(Num(hi), v)

\* C1: no request reaches the provider with a max-output-size outside
\* [10, 4000] or a temperature outside [0, 2]: such a
\* configuration is a fatal error before the call.
C1_NoOutOfRangeRequest ==
  request.sent =>
    /\ InRange(request.max_tokens, 10, 4000)
    /\ InRange(request.temperature, 0, 2)

\* C2: gitService.commit is invoked only with a successfully generated
\* message of the running attempt at hand, and once a step has failed (an
\* error is being thrown, or the credential check has ended the call) it is
\* never invoked any more.
C2_CommitOnlyAfterGeneration ==
  [][/\ (commits' # commits =>
           /\ Len(commits') = Len(commits) + 1
           /\ result'.ok /\ request'.sent
           /\ err' = "none" /\ ~Occurs("setup", log'))
     /\ ((err # "none" \/ Occurs("setup", log)) => commits' = commits)]_vars

C2_Witness ==
  /\ pc = "done" /\ exitCode = 0
  /\ Len(commits) = 1 /\ result.ok
  /\ Count("provider", log) = 2

\* C3: a repository check in which checkIsRepo does not answer true, and a
\* staged-changes check in which the status query fails or shows nothing
\* staged, throw their error; and once one of the two errors is thrown, the
\* attempt has read no diff, called no provider, shown no prompt and
\* committed nothing, each check ran once, the error can only propagate, and
\* the invocation ends reporting it with exit condition 1.  (The two checks
\* run once a credential is found; C4 is about an invocation without one.)
C3_RepositoryErrorsAreTerminal ==
  /\ [][/\ \A p \in {"false", "rejected"} :
             CheckRepositoryOn(p) => (pc' = "throw" /\ err' = "notRepo")
        /\ \A st \in {o \in StatusOutcomes : ~o.ok \/ o.staged = 0} :
             CheckStagedOn(st) => (pc' = "throw" /\ err' = "noStaged")]_vars
  /\ [](err \in {"notRepo", "noStaged"} =>
          /\ pc \in {"throw", "done"}
          /\ \A e \in {"diff", "provider", "prompt", "edit", "commit"} :
               ~Occurs(e, AttemptLog)
          /\ Count("isRepo", AttemptLog) = 1
          /\ Count("status", AttemptLog) <= 1
          /\ ~request.sent /\ ~result.ok
          /\ ((stack = << >> /\ pc = "throw") => commits = << >>)
          /\ (pc = "done" =>
                /\ exitCode = 1
                /\ log[Len(log)] = "error"
                /\ Count("error", log) = 1))

\* C4: with an empty API key the invocation reports the configuration
\* error, calls no provider, commits nothing and ends with exit condition 1.
C4_MissingCredentialExitsNonZero ==
  (pc = "done" /\ ~Truthy(config.ai.apiKey)) =>
    /\ Occurs("setup", log)
    /\ ~Occurs("provider", log)
    /\ commits = << >>
    /\ exitCode = 1

\* what the three context reads must contribute to the request, given what
\* the git library answered: the value read, or the safe default
ExpectedBranch == 
  IF reads.branch.ok THEN reads.branch.current ELSE MainBranch

ExpectedRepoName ==
  IF reads.repo.ok /\ reads.repo.hasOrigin THEN Str(<< "r" >>) ELSE Undef

ExpectedCommits ==
  IF reads.commits.ok THEN reads.commits.messages ELSE << >>

\* C5: whatever combination of the three context reads fails, the attempt
\* does not abort: from the context step it can only go on to the provider
\* call, and the request then carries each value read, or 'main', no
\* repository name and no commits for the reads that failed.
C5_ContextReadsDegrade ==
  [][pc = "context" =>
       /\ pc' \in {"context", "awaitProvider"}
       /\ err' = "none"
       /\ pc' = "awaitProvider" =>
            /\ pending = {}
            /\ request'.sent
            /\ request'.branch = ExpectedBranch
            /\ request'.repoName = ExpectedRepoName
            /\ request'.previousCommits = ExpectedCommits
            /\ request'.diff = diff /\ request'.style = commitStyle]_vars

C5_Witness ==
  /\ pc = "awaitProvider"
  /\ ~reads.branch.ok /\ ~reads.repo.ok /\ reads.commits.ok
  /\ request.branch = MainBranch /\ request.repoName = Undef
  /\ request.previousCommits = << << "c","1" >>, << "c","2" >> >>

\* C6: an attempt sends at most one request to the provider; when the
\* request fails or brings no content the attempt is over with an error
\* that can only propagate to the caller, and no further request is sent.
C6_OneRequestPerAttempt ==
  /\ Count("provider", AttemptLog) <= 1
  /\ Count("provider", log) <= Count("credential", log)
  /\ err \in {"apiError", "generate"} =>
       /\ pc \in {"throw", "done"}
       /\ Count("provider", AttemptLog) = 1
       /\ AttemptLog[Len(AttemptLog)] \in {"provider", "error"}
       /\ ~result.ok
       /\ pc = "done" => exitCode = 1

C6_Witness ==
  /\ pc = "done" /\ exitCode = 1 /\ err = "generate"
  /\ Count("provider", log) = 2 /\ Count("credential", log) = 2

\* C7: with --dry-run, whatever --commit and --interactive say, nothing is
\* committed and the user is never prompted; once the message has been
\* generated the invocation just returns, with exit condition 0.
C7_DryRunNeverCommits ==
  argv.dryRun =>
    /\ commits = << >>
    /\ \A e \in {"prompt", "edit", "commit"} : ~Occurs(e, log)
    /\ result.ok => (pc \in {"return", "done"} /\ stack = << >>)
    /\ (result.ok /\ pc = "done") => exitCode = 0

C7_Witness ==
  /\ argv.dryRun /\ argv.commit /\ argv.interactive
  /\ result.ok /\ pc = "done"

\* C8: with --commit and neither --interactive nor --dry-run, a generated
\* message is committed at once, exactly once and without a prompt; without
\* --commit and without --dry-run every commit comes after a prompt of the
\* same attempt.
C8_AutoCommitWithoutPrompt ==
  /\ (argv.commit /\ ~argv.interactive /\ ~argv.dryRun) =>
       /\ ~Occurs("prompt", log) /\ ~Occurs("edit", log)
       /\ Len(commits) = (IF result.ok THEN 1 ELSE 0)
       /\ Count("commit", log) = Len(commits)
       /\ result.ok =>
            Sub(log, 1, 6) = << "credential", "isRepo", "status", "diff",
                                "provider", "commit" >>
  /\ (~argv.commit /\ ~argv.dryRun) =>
       \A i \in 1 .. Len(log) :
         log[i] = "commit" =>
           /\ i > 1 /\ log[i - 1] \in {"prompt", "edit"}
           /\ \E j \in 1 .. (i - 1) :
                /\ log[j] = "prompt"
                /\ \A m \in j .. i : log[m] # "credential"

C8_Witness ==
  /\ argv.commit /\ ~argv.interactive /\ ~argv.dryRun
  /\ pc = "done" /\ exitCode = 0
  /\ Len(commits) = 1 /\ result.ok

\* C9: the text of an unedited commit (auto-commit, or the 'commit' choice)
\* is format(message, style) of the generated message.
C9_CommitTextIsFormatted ==
  (pc = "committing" /\ log[Len(log) - 1] # "edit") =>
    commits[Len(commits)] = formatCommitMessage(result.message, commitStyle)

\* the setting a layered load must produce: the environment's value when the
\* variable is set, else the file's when the file supplies one, else the
\* default
Layered(envValue, isSet, fileValue, default) ==
  IF isSet THEN envValue
  ELSE IF fileValue # Undef THEN fileValue
  ELSE default

FileAi(file) == IF file.exists /\ file.valid /\ file.hasAi
                THEN file.ai ELSE NoFile.ai

FileGit(file) == IF file.exists /\ file.valid /\ file.hasGit
                 THEN file.git ELSE NoFile.git

\* C10: every setting with an environment variable is loaded by the
\* precedence environment > file > defaults.
C10_LayeredPrecedence ==
  cfgPc = "loaded" =>
    /\ cfgLoaded.ai.apiKey =
         Layered(Str(cfgEnv["OPENAI_API_KEY"].val),
                 cfgEnv["OPENAI_API_KEY"].set,
                 FileAi(cfgFile).apiKey, Str(<< >>))
    /\ cfgLoaded.ai.model =
         Layered(Str(cfgEnv["AI_MODEL"].val), cfgEnv["AI_MODEL"].set,
                 FileAi(cfgFile).model, Str(DefaultModel))
    /\ cfgLoaded.ai.maxTokens =
         Layered(parseInt(cfgEnv["AI_MAX_TOKENS"].val),
                 cfgEnv["AI_MAX_TOKENS"].set,
                 FileAi(cfgFile).maxTokens, Num(100))
    /\ cfgLoaded.ai.temperature =
         Layered(parseFloat(cfgEnv["AI_TEMPERATURE"].val),
                 cfgEnv["AI_TEMPERATURE"].set,
                 FileAi(cfgFile).temperature, Dec(7, 1))
    /\ cfgLoaded.ai.organization =
         Layered(Str(cfgEnv["OPENAI_ORGANIZATION"].val),
                 cfgEnv["OPENAI_ORGANIZATION"].set,
                 FileAi(cfgFile).organization, Undef)
    /\ cfgLoaded.git.defaultStyle =
         Layered(Str(cfgEnv["DEFAULT_COMMIT_STYLE"].val),
                 cfgEnv["DEFAULT_COMMIT_STYLE"].set,
                 FileGit(cfgFile).defaultStyle, Str(Detailed))

\* C11: without a --style option the style of the attempt (prompt, system
\* instruction, response parsing) is the configured default style
\* config.git.defaultStyle; with --style it is the option's value.
C11_StyleIsOptionOrConfiguredDefault ==
  commitStyle # << >> =>
    commitStyle = IF argv.style.set THEN argv.style.val
                  ELSE config.git.defaultStyle.s

\* a text with no character other than white space
AllBlank(s) == \A i \in 1 .. Len(s) : IsSpace(s[i])

\* C12: parsing fails with the empty-response error exactly when the text,
\* after trimming, fence stripping and backtick stripping, has no non-blank
\* line; in every other case the returned title is non-empty.
C12_EmptyResponseIffNoNonBlankLine ==
  fnPc = "done" =>
    /\ ~fnOut.ok <=> AllBlank(CleanContent(fnIn.content))
    /\ fnOut.ok => fnOut.message.title # << >>

\* an empty fenced block, and a text of backticks and blank lines, are both
\* rejected
C12_Witness ==
  /\ fnPc = "done"
  /\ ~fnOut.ok
  /\ fnIn.content \in {EmptyFence, << TICK, NL, " ", TICK >>}

\* the title and the body agree, or both calls throw
SameTitleAndBody(a, b) ==
  /\ a.ok = b.ok
  /\ a.message.title = b.message.title
  /\ a.message.body = b.message.body

\* the first line of a text that is not blank, trimmed; empty when every
\* line is blank
RECURSIVE FirstNonBlankOf(_)
FirstNonBlankOf(ls) ==
  IF ls = << >> THEN << >>
  ELSE IF AllBlank(Head(ls)) THEN FirstNonBlankOf(Tail(ls))
  ELSE Trim(Head(ls))

FirstNonBlankLine(text) == FirstNonBlankOf(SplitLines(text))

\* a title that neither starts nor ends with a backtick
NoTickAtEnds(title) ==
  title # << >> => title[1] # TICK /\ title[Len(title)] # TICK

\* C13, as stated: a fenced block parses to the title and body of its content
\* alone, whatever the content lines are, and the title has no backtick at
\* either end.
C13_FencedParsesAsContent ==
  fnPc = "done" /\ "fenced" \in DOMAIN fnOut =>
    /\ SameTitleAndBody(fnOut.fenced, fnOut.alone)
    /\ NoTickAtEnds(fnOut.fenced.message.title)

\* C13, amended: when the trimmed content neither starts nor ends with a
\* backtick, the fenced block parses to the title and body of the content
\* alone, whatever the language tag; when moreover the first non-blank
\* content line does not end with a backtick, neither end of the title is
\* a backtick.
C13_FencedParsesAsContentWithoutEdgeTicks ==
  fnPc = "done" /\ "fenced" \in DOMAIN fnOut =>
    (NoTickAtEnds(Trim(fnIn.content)) =>
       /\ SameTitleAndBody(fnOut.fenced, fnOut.alone)
       /\ NoTickAtEnds(FirstNonBlankLine(fnIn.content)) =>
            NoTickAtEnds(fnOut.fenced.message.title))

\* a tagged block whose content holds a backtick inside a line and white
\* space around it
C13_Witness ==
  /\ fnPc = "done"
  /\ "fenced" \in DOMAIN fnOut
  /\ fnIn.tag = << "t", "s" >>
  /\ fnIn.content = << " ", "a", TICK, "a" >>
  /\ fnOut.fenced.ok
  /\ fnOut.fenced.message.title = << "a", TICK, "a" >>
  /\ fnOut.alone.message.title = << "a", TICK, "a" >>


\* the ways a title reads as: word, optional parenthesised non-empty scope,
\* optional '!', a colon followed by a space, a non-empty rest.  w is the
\* length of the word, sl the length of the scope with its parentheses (0
\* without a scope), b is 1 with a '!'
ClaimedParses(t) ==
  {p \in [w : 1 .. Len(t), sl : 0 .. Len(t), b : {0, 1}] :
     LET c == p.w + p.sl + p.b + 1 IN
       /\ c + 2 <= Len(t)
       /\ \A i \in 1 .. p.w : IsWord(t[i])
       /\ p.sl # 0 =>
            /\ p.sl >= 3
            /\ t[p.w + 1] = "(" /\ t[p.w + p.sl] = ")"
            /\ \A i \in (p.w + 2) .. (p.w + p.sl - 1) : t[i] # ")"
       /\ p.b = 1 => t[c - 1] = "!"
       /\ t[c] = ":" /\ t[c + 1] = " "}

\* C14: under the conventional style a type is set exactly for a title of
\* the form word, optional (scope), optional '!', colon and space, rest; the
\* type is then the word, the scope the parenthesised text, breaking the
\* presence of '!'; otherwise type and scope are absent and breaking is
\* false; the title is the first non-blank line either way.
C14_TypeIffTitleHasConventionalForm ==
  fnPc = "done" /\ "message" \in DOMAIN fnOut
    /\ fnIn.style = Conventional /\ fnOut.ok =>
    LET msg == fnOut.message
        ps  == ClaimedParses(msg.title)
    IN /\ msg.title = FirstNonBlankLine(CleanContent(fnIn.content))
       /\ msg.type # << >> <=> ps # {}
       /\ \A p \in ps :
            /\ msg.type = Sub(msg.title, 1, p.w)
            /\ msg.scope = Sub(msg.title, p.w + 2, p.w + p.sl - 1)
            /\ msg.breaking = (p.b = 1)
       /\ ps = {} =>
            msg.type = << >> /\ msg.scope = << >> /\ ~msg.breaking


\* the five conditions of the score, as they hold of a title and a body
Conditions(title, body) ==
  << Len(title) > 10 /\ Len(title) <= 50,
     title # << >> /\ title[1] \in LowerCase,
     title = << >> \/ title[Len(title)] # ".",
     \E i \in 1 .. Len(title) : title[i] = ":",
     Len(body) > 20 >>

\* the score of five conditions, in tenths
ScoreOf(c) ==
  LET sum == 5 + (IF c[1] THEN 2 ELSE 0) + (IF c[2] THEN 1 ELSE 0)
               + (IF c[3] THEN 1 ELSE 0) + (IF c[4] THEN 1 ELSE 0)
               + (IF c[5] THEN 1 ELSE 0)
  IN IF sum <= 10 THEN sum ELSE 10

\* C15: the confidence, in tenths, is 5 plus 2 for a title of 11 to 50
\* characters, plus 1 each for a lowercase first letter, no final period, a
\* colon and a body of more than 20 characters, capped at 10; it lies
\* between 5 and 10, satisfying one more condition never lowers it, and it
\* is 5 when none of the conditions holds.
C15_ConfidenceIsCappedSum ==
  fnPc = "done" /\ fnOut \in Int =>
    LET c == Conditions(fnIn.title, fnIn.body) IN
      /\ fnOut = ScoreOf(c)
      /\ fnOut >= 5 /\ fnOut <= 10
      /\ \A k \in 1 .. 5 : ~c[k] => ScoreOf([c EXCEPT ![k] = TRUE]) >= fnOut
      /\ (\A k \in 1 .. 5 : ~c[k]) => fnOut = 5

\* all five conditions hold and the sum of 11 is capped
C15_Witness ==
  /\ fnPc = "done"
  /\ fnOut = 10
  /\ \A k \in 1 .. 5 : Conditions(fnIn.title, fnIn.body)[k]


\* C16, as stated: a message with one of the eleven types and a non-empty
\* title, formatted as conventional, passes the conventional validation,
\* whatever its scope, breaking flag, body and footer.
C16_FormattedConventionalIsValid ==
  fnPc = "done" /\ "valid" \in DOMAIN fnOut
    /\ fnIn.style = Conventional
    /\ fnIn.message.type \in CommitTypes
    /\ fnIn.message.title # << >>
    => fnOut.valid


\* C16, amended: a message with one of the eleven types, a title that is
\* non-empty and does not begin with a line break, and a scope (if any)
\* holding no line break, formatted as conventional, passes the conventional
\* validation, whatever its breaking flag, body and footer.
C16_FormattedConventionalIsValidOnOneLine ==
  fnPc = "done" /\ "valid" \in DOMAIN fnOut
    /\ fnIn.style = Conventional
    /\ fnIn.message.type \in CommitTypes
    /\ fnIn.message.title # << >>
    /\ fnIn.message.title[1] \notin LineTerminators
    /\ (\A i \in 1 .. Len(fnIn.message.scope) :
          fnIn.message.scope[i] \notin LineTerminators)
    => fnOut.valid

\* a breaking fix with a scope holding a parenthesis, a body and a footer
C16_Witness ==
  /\ fnPc = "done"
  /\ "valid" \in DOMAIN fnOut
  /\ fnIn.style = Conventional
  /\ fnIn.message.type = << "f", "i", "x" >>
  /\ fnIn.message.scope = << "a", ")", "b" >>
  /\ fnIn.message.breaking
  /\ fnIn.message.body # << >> /\ fnIn.message.footer # << >>
  /\ fnOut.text =
       << "f", "i", "x", "(", "a", ")", "b", ")", "!", ":", " ", "x", NL,
          "y", NL, NL, "w", "h", "y", NL, NL, "R", "e", "f", "s", " ", "1" >>
  /\ fnOut.valid


\* a text that reads as: one of the eleven tags, optional parenthesised
\* scope, optional '!', a colon followed by a space, a description
ClaimedConventional(t) ==
  \E tag \in CommitTypes, sl \in 0 .. Len(t), b \in {0, 1} :
    LET w == Len(tag)
        c == w + sl + b + 1
    IN /\ StartsWith(t, tag)
       /\ c + 2 <= Len(t)
       /\ sl # 0 =>
            /\ sl >= 3
            /\ t[w + 1] = "(" /\ t[w + sl] = ")"
            /\ \A i \in (w + 2) .. (w + sl - 1) :
                 t[i] \notin LineTerminators
       /\ b = 1 => t[c - 1] = "!"
       /\ t[c] = ":" /\ t[c + 1] = " "
       /\ t[c + 2] \notin LineTerminators

\* C17: the conventional validation accepts a text exactly when it is not
\* blank and reads as one of the eleven tags, an optional parenthesised
\* scope, an optional '!', a colon followed by a single space, and a
\* non-empty description; another leading tag, or a missing colon-space
\* separator, means rejection.
C17_ConventionalValidIffClaimedForm ==
  fnPc = "done" /\ fnOut \in BOOLEAN /\ fnIn.style = Conventional =>
    (fnOut <=> Trim(fnIn.message) # << >> /\ ClaimedConventional(fnIn.message))


\* the first line of a text: what precedes its first line break
FirstLine(t) ==
  IF \E i \in 1 .. Len(t) : t[i] = NL
  THEN LET i == CHOOSE i \in 1 .. Len(t) :
                  t[i] = NL /\ \A j \in 1 .. (i - 1) : t[j] # NL
       IN Sub(t, 1, i - 1)
  ELSE t

\* C18: under every style other than conventional (standard, detailed or an
\* unrecognised one) a non-blank text is valid exactly when its first line
\* has at most 50 characters and does not end with a period, whatever the
\* later lines are.
C18_OtherStylesCheckFirstLineOnly ==
  fnPc = "done" /\ fnOut \in BOOLEAN /\ fnIn.style # Conventional
    /\ ~AllBlank(fnIn.message) =>
    LET title == FirstLine(fnIn.message) IN
      fnOut <=> /\ Len(title) <= 50
                /\ (title = << >> \/ title[Len(title)] # ".")

\* a first line of exactly 50 characters followed by a longer line that
\* ends with a period, under an unrecognised style
C18_Witness ==
  /\ fnPc = "done"
  /\ fnIn.style = OtherStyle
  /\ fnIn.message = LineOf(50, FALSE) \o LaterLine
  /\ fnOut = TRUE


\* C19: a raw diff of at most 3000 characters is embedded unchanged; a longer
\* one is embedded as a prefix that stops right before a line break lying
\* within its first 3000 characters (the empty prefix when there is no such
\* line break), followed by the truncation marker, so no partial line is
\* embedded and the embedded text is at most 3000 characters plus the marker.
C19_TruncationStopsAtLineBreak ==
  fnPc = "done" /\ "embedded" \in DOMAIN fnOut =>
    LET d == fnIn.raw
        e == fnOut.embedded
    IN IF Len(d) <= DiffLimit THEN e = d
       ELSE /\ Len(e) <= DiffLimit + Len(TruncationMarker)
            /\ \E k \in 0 .. (DiffLimit - 1) :
                 /\ e = Sub(d, 1, k) \o TruncationMarker
                 /\ \/ d[k + 1] = NL
                    \/ k = 0 /\ \A i \in 1 .. DiffLimit : d[i] # NL

\* a diff longer than the limit whose last line break within the limit is
\* the character before the last one: the line begun after it is dropped
C19_Witness ==
  /\ fnPc = "done"
  /\ "embedded" \in DOMAIN fnOut
  /\ Len(fnIn.raw) = DiffLimit + 1
  /\ fnIn.raw[DiffLimit - 1] = NL
  /\ fnIn.raw[DiffLimit] # NL
  /\ fnOut.embedded = Sub(fnIn.raw, 1, DiffLimit - 2) \o TruncationMarker


\* the entry of a file change: <status>: <path> (+<insertions>/-<deletions>)
EntryOf(file) ==
  StatusText(file.status) \o << ":", " " >> \o file.path
    \o << " ", "(", "+" >> \o ToText(file.insertions) \o << "/", "-" >>
    \o ToText(file.deletions) \o << ")" >>

\* the first line of a sequence of lines that starts with a prefix, 0 when
\* no line does
LineWith(lines, prefix) ==
  IF \E i \in 1 .. Len(lines) : StartsWith(lines[i], prefix)
  THEN CHOOSE i \in 1 .. Len(lines) :
         /\ StartsWith(lines[i], prefix)
         /\ \A j \in 1 .. (i - 1) : ~StartsWith(lines[j], prefix)
  ELSE 0

\* how the heading of the files-changed section starts
FilesHeading ==
  << "F", "i", "l", "e", "s", " ", "c", "h", "a", "n", "g", "e", "d", " ",
     "(" >>

\* the lines of the files-changed section: those after its heading and
\* before the next empty line
FilesSection(lines) ==
  LET head == LineWith(lines, FilesHeading)
      end  == CHOOSE j \in (head + 1) .. Len(lines) :
                /\ lines[j] = << >>
                /\ \A k \in (head + 1) .. (j - 1) : lines[k] # << >>
  IN SubSeq(lines, head + 1, end - 1)

\* C20: the files-changed section of the prompt holds one entry
\* '<status>: <path> (+<insertions>/-<deletions>)' per file change, in the
\* order of the input and nothing else, and it comes after the repository
\* and branch lines and before the recent commits and the diff.
C20_FilesSectionListsEveryFileInOrder ==
  fnPc = "done" /\ "prompt" \in DOMAIN fnOut =>
    LET lines   == SplitLines(fnOut.prompt)
        files   == fnIn.diff.files
        section == FilesSection(lines)
        head    == LineWith(lines, FilesHeading)
        repo    == LineWith(lines, << "R", "e", "p", "o", "s", "i", "t", "o",
                                      "r", "y", ":", " " >>)
        branch  == LineWith(lines, << "B", "r", "a", "n", "c", "h", ":",
                                      " " >>)
        recent  == LineWith(lines, << "R", "e", "c", "e", "n", "t", " ", "c",
                                      "o", "m", "m", "i", "t", "s" >>)
        gitDiff == LineWith(lines, << "G", "i", "t", " ", "d", "i", "f", "f",
                                      ":" >>)
    IN /\ head # 0
       /\ Len(section) = Len(files)
       /\ \A i \in 1 .. Len(files) :
            section[i] = << "-", " " >> \o EntryOf(files[i])
       /\ (repo # 0) = (fnIn.repoName # << >>)
       /\ (branch # 0) = (fnIn.branch # << >>)
       /\ repo < head /\ branch < head
       /\ (recent # 0) = (fnIn.previousCommits # << >>)
       /\ recent # 0 => head + Len(files) < recent /\ recent < gitDiff
       /\ head + Len(files) < gitDiff

\* three file changes, the second and third with the same path, under a
\* repository, a branch and recent commits
C20_Witness ==
  /\ fnPc = "done"
  /\ "prompt" \in DOMAIN fnOut
  /\ Len(fnIn.diff.files) = 3
  /\ fnIn.diff.files[1].status = "added"
  /\ fnIn.diff.files[2].status = "renamed"
  /\ fnIn.diff.files[3] = fnIn.diff.files[2]
  /\ fnIn.repoName # << >> /\ fnIn.branch # << >>
  /\ Len(fnIn.previousCommits) = 4
  /\ FilesSection(SplitLines(fnOut.prompt)) =
       << << "-", " ", "a", "d", "d", "e", "d", ":", " ", "a", ".", "t", "s",
             " ", "(", "+", "1", "2", "/", "-", "0", ")" >>,
          << "-", " ", "r", "e", "n", "a", "m", "e", "d", ":", " ", "b", "/",
             "c", " ", "(", "+", "0", "/", "-", "0", ")" >>,
          << "-", " ", "r", "e", "n", "a", "m", "e", "d", ":", " ", "b", "/",
             "c", " ", "(", "+", "0", "/", "-", "0", ")" >> >>


\* C21: when the user is prompted, commit is invoked at most once in the
\* invocation, and only by the step that takes the answer 'commit' or by the
\* step that takes an edited text that is not blank once trimmed, which
\* commits exactly that trimmed text; after 'cancel', or after an edited
\* text that is blank, the invocation only returns and nothing is committed.
C21_InteractiveCommitOnlyOnCommitOrEdit ==
  [][ModeOf(options) = "prompt" =>
       /\ commits' # commits =>
            /\ commits = << >> /\ Len(commits') = 1
            /\ pc' = "committing"
            /\ \/ pc = "prompt"
               \/ /\ pc = "edit"
                  /\ commits'[1] # << >>
                  /\ ~IsSpace(commits'[1][1])
                  /\ ~IsSpace(commits'[1][Len(commits'[1])])
                  /\ \E t \in EditTexts \cup {result.message.title} :
                       commits'[1] = Trim(t)
       /\ pc \in {"prompt", "edit"} /\ pc' = "return" => commits' = commits
       /\ pc = "return" => pc' \in {"return", "done"} /\ commits' = commits
       /\ pc = "done" => commits' = commits]_vars

\* the user chose 'edit', typed a text with blanks around it, and the
\* trimmed text was committed
C21_Witness ==
  /\ pc = "done"
  /\ Occurs("edit", log)
  /\ commits = << << "e" >> >>
  /\ result.message.title # << "e" >>


\* C22: the answer 'regenerate' starts a whole new attempt, whose
\* credential, repository and staged-changes checks run again and which
\* sends one request to the provider; its message is put to the user in a
\* prompt whether or not --interactive was given; a commit made after a
\* regeneration is made from that prompt and, on the answer 'commit', with
\* the message of the new attempt; and when every step that can be taken is
\* taken and the user stops regenerating, the invocation terminates.
C22_RegenerateIsFreshAttemptAndTerminates ==
  /\ [](stack # << >> /\ pc = "prompt" =>
          /\ Count("credential", log) = Len(stack) + 1
          /\ Count("isRepo", AttemptLog) = 1
          /\ Count("status", AttemptLog) = 1
          /\ Count("provider", AttemptLog) = 1
          /\ AttemptLog[Len(AttemptLog)] = "prompt"
          /\ result.ok /\ request.sent)
  /\ [][/\ Len(stack') > Len(stack) =>
             /\ pc = "prompt" /\ pc' = "credential"
             /\ result' = NoResult /\ request' = NoRequest
        /\ stack # << >> /\ pc = "awaitProvider" /\ pc' \notin {pc, "throw"}
             => pc' = "prompt"
        /\ stack # << >> /\ commits' # commits =>
             /\ pc \in {"prompt", "edit"}
             /\ pc = "prompt" =>
                  commits' = Append(commits, result.message.title)
        /\ pc = "return" => commits' = commits]_vars
  /\ [](stack # << >> => <>(pc = "done"))

\* an invocation without --interactive that regenerated, prompted again
\* and committed
C22_Witness ==
  /\ pc = "done"
  /\ ~argv.interactive
  /\ Count("credential", log) = 2
  /\ Count("provider", log) = 2
  /\ Count("prompt", log) = 2
  /\ Len(commits) = 1


\* C23: under the conventional style, when the parsed title has the
\* conventional form, the first line of the formatted message is the parsed
\* title: the type, scope and '!' prefix is there once.
C23_ParseThenFormatKeepsTitle ==
  fnPc = "done" /\ "text" \in DOMAIN fnOut
    /\ fnIn.style = Conventional /\ fnOut.parsed.ok
    /\ ClaimedParses(fnOut.parsed.message.title) # {}
    => FirstLine(fnOut.text) = fnOut.parsed.message.title

=============================================================================
